---- MODULE Spec2Model ----
(***************************************************************************)
(* Document processing pipeline of docintelrag.                            *)
(*                                                                         *)
(* Spec       : one Document, from the state upload_files leaves it in,    *)
(*              driven by the Celery task process_document (workers/       *)
(*              tasks.py), the Celery retry / late-ack delivery rules      *)
(*              (workers/celery_app.py) and the HTTP handlers of           *)
(*              routers/documents.py and routers/ingestion.py.             *)
(* SpecSerial : process_document and the two reprocess handlers when every *)
(*              run ends before the next request or delivery.              *)
(* SpecIngest : the documents table under upload_files and ingest_folder.  *)
(* SpecLive   : the task and its deliveries alone, with the hard time      *)
(*              limit of the worker, under fair delivery and progress.     *)
(* SpecClassify, SpecAmount, SpecDate, SpecInvoice : the service functions *)
(*              classify_by_rules, normalize_amount, normalize_date and    *)
(*              classify_document / extract_by_rules_fallback applied to   *)
(*              bounded inputs.                                            *)
(* SpecColumns : the denormalized columns of a Document under runs of the  *)
(*              task and the two reprocess handlers.                       *)
(* SpecOcrPage, SpecOcr : ocr_page on one page and run_ocr on the pages of *)
(*              a PDF, with its single worker thread (services/ocr.py).    *)
(* SpecEvidence, SpecHybrid : the evidence of classify_by_rules, and       *)
(*              classify_document with the answers of the LLM.             *)
(* SpecExtract : extract_fields with the answers of the LLM.               *)
(*                                                                         *)
(* A SQLAlchemy session is modelled as a unit of work: attribute           *)
(* assignments and db.add() are pending until db.commit(), which writes    *)
(* them in one step; a query reads committed rows only, because            *)
(* SessionLocal is created with autoflush=False (database.py:18).          *)
(* query.delete() is executed at once inside the transaction: it fixes the *)
(* rows it removes when the statement runs and removes them at commit.     *)
(***************************************************************************)
EXTENDS Integers, Sequences, FiniteSets, TLC

(***************************************************************************)
(* Bounds                                                                  *)
(***************************************************************************)
\* process_document.delay() calls for the document, the upload's included
MaxDispatch == 2
\* HTTP requests issued against the document
MaxRequests == 1
\* deliveries repeated because a worker was lost before acknowledging
MaxLost == 1
\* pages of the uploaded file
MaxPages == 1
\* the same, for SpecSerial
MaxSerialDispatch == 3
MaxSerialRequests == 2
\* SpecIngest: upload / folder requests, files per request, distinct file
\* contents, tenants
MaxUploads == 2
MaxFiles == 2
MaxHashes == 2
MaxTenants == 2
\* SpecClassify: strings and patterns of the rule tables found in a text
MaxMatches == 2
\* SpecAmount: characters of an amount string
MaxAmountLen == 5
\* SpecColumns: fields a run extracts, runs of a document
MaxFields == 2
MaxRuns == 2
\* SpecOcr: pages of the PDF, pages asked for in one run_ocr call
MaxOcrPages == 2
MaxOcrRequest == 2
\* SpecHybrid: strings and patterns found in a text, words of an LLM answer
MaxFound == 3
MaxNamed == 1

(***************************************************************************)
(* Program constants                                                       *)
(***************************************************************************)
max_retries == 3
RetryCountdownUnit == 60

DocumentStatus == {"queued", "processing", "extracted", "validated", "failed"}
Rotations == {0, 90, 180, 270}

NoRun == [pc |-> "none"]
NoUpload == [kind |-> "none"]
UploadDone == [kind |-> "done"]
UploadIds == 1..MaxUploads
Tenants == 1..MaxTenants
Hashes == 1..MaxHashes
NoPass == <<>>
NoCall == [fn |-> "none"]
NoColumns == [phase |-> "none"]
NoOcr == [pc |-> "none"]

VARIABLES
    file,        \* the uploaded file: its pages and whether it reads as scanned
    doc,         \* the Document row
    pages,       \* DocumentPage rows of the document: how many rows of each content
    fields,      \* ExtractedField rows of the document
    lines,       \* DocumentLine rows of the document
    queue,       \* task messages held by the broker
    runs,        \* the execution of process_document per task id
    nLost,       \* workers lost so far
    nRequests,   \* HTTP requests served so far
    lastOk,      \* the last run that committed 'extracted' since the last reprocess
    exhausted,   \* a retry budget ran out and no reprocess was requested since
    documents,   \* SpecIngest: the committed rows of the documents table
    uploads,     \* SpecIngest: the upload / folder requests being served
    dispatched,  \* SpecIngest: rows process_document.delay() was called for
    arg,         \* the argument of a service function under study
    res,         \* what the function returned for it
    columns,     \* SpecColumns: the denormalized columns of the Document row
    ocr          \* SpecOcr: one invocation of run_ocr

pipelineVars == <<file, doc, pages, fields, lines, queue, runs, nLost, nRequests,
                  lastOk, exhausted>>

ingestVars == <<documents, uploads, dispatched>>

callVars == <<arg, res>>

serviceVars == <<columns, ocr>>

vars == <<pipelineVars, ingestVars, callVars, serviceVars>>

(***************************************************************************)
(* Helpers on row tables                                                   *)
(***************************************************************************)
\* a DocumentPage row as lines 53-57 create it from the extraction
ExtractionPage(n) == [page_number |-> n, text_content |-> "native", ocr_confidence |-> "null"]

\* a DocumentPage row after lines 77-78 gave it the OCR text and confidence
OcrPage(n) == [page_number |-> n, text_content |-> "ocr", ocr_confidence |-> "ocr"]

\* the contents a DocumentPage row of the document can have
PageRows == {ExtractionPage(n) : n \in 1..MaxPages} \cup {OcrPage(n) : n \in 1..MaxPages}

NoPages == [r \in PageRows |-> 0]

\* rows of the table with page number n
PageCount(tbl, n) ==
    LET rs == {r \in PageRows : r.page_number = n /\ tbl[r] > 0}
        RECURSIVE Sum(_)
        Sum(S) == IF S = {} THEN 0 ELSE LET r == CHOOSE x \in S : TRUE IN tbl[r] + Sum(S \ {r})
    IN Sum(rs)

RECURSIVE SeqOf(_, _, _)
\* <<F(lo), ..., F(hi)>>
SeqOf(F(_), lo, hi) == IF lo > hi THEN <<>> ELSE <<F(lo)>> \o SeqOf(F, lo + 1, hi)

Passes(tbl) == {tbl[i].pass : i \in 1..Len(tbl)}

\* the DELETE statements left out
WithoutPassesKeepingAll(tbl, del) == tbl

\* tbl without the rows of the passes in del
WithoutPasses(tbl, del) ==
    LET keep(r) == r.pass \notin del IN SelectSeq(tbl, keep)

(***************************************************************************)
(* Stage results for the file                                              *)
(***************************************************************************)
\* extract_text_from_pdf: one PageContent per page, numbered from 1; [] for
\* a file that cannot be opened
\* the table after db.add() of the extraction's pages (lines 52-58)
WithExtractionPages(tbl, f) ==
    [r \in PageRows |->
        IF r.page_number \in 1..f.np /\ r = ExtractionPage(r.page_number)
        THEN tbl[r] + 1 ELSE tbl[r]]

\* run_ocr: one OCRPageResult per page of the file
OcrPageNumbers(f) == 1..f.np

\* extract_fields: the fields and lines it returns for the document text
FieldNames == <<"numero_documento", "data_documento">>
LineNumbers == <<1>>

\* field_result.warnings (metatag.py:553-566): none, as both required fields
\* and a line are returned
FieldWarnings == <<>>

FieldRows(pass) ==
    LET row(i) == [field_name |-> FieldNames[i], pass |-> pass]
    IN SeqOf(row, 1, Len(FieldNames))

LineRows(pass) ==
    LET row(i) == [line_number |-> LineNumbers[i], pass |-> pass]
    IN SeqOf(row, 1, Len(LineNumbers))

\* np = 0 is the file fitz.open() cannot open (extraction.py:93-101: no
\* pages, is_scanned = True)
Files == {f \in [np : 0..MaxPages, is_scanned : BOOLEAN] : f.np = 0 => f.is_scanned}

Unreadable(f) == f.np = 0

\* the warning for a file that cannot be opened left out
ExtractionWarningsWhenOpened(f) == IF f.is_scanned THEN <<"appears_scanned">> ELSE <<>>

\* extraction.warnings (extraction.py:82-83, 100)
ExtractionWarnings(f) ==
    IF Unreadable(f) THEN <<"extraction_error">>
    ELSE IF f.is_scanned THEN <<"appears_scanned">>
    ELSE <<>>

\* the results run_ocr can have for the file: the pages whose confidence is
\* below 0.5 or whose OCR timed out or raised (ocr.py:263-280)
OcrOutcomes(f) == SUBSET OcrPageNumbers(f)

LowQuality(n) == [warning |-> "low_quality", page |-> n]

\* ocr_result.warnings (ocr.py:246-247, 263-280): one per page of low, in
\* page order
OcrWarnings(f, low) ==
    IF Unreadable(f) THEN <<"could_not_open">>
    ELSE LET w(n) == IF n \in low THEN <<LowQuality(n)>> ELSE <<>>
             RECURSIVE Cat(_)
             Cat(n) == IF n > f.np THEN <<>> ELSE w(n) \o Cat(n + 1)
         IN Cat(1)

(***************************************************************************)
(* Initial state: the document as upload_files / ingest_folder create it,  *)
(* with its first process_document.delay() sent.                           *)
(***************************************************************************)
Message(d, retries, countdown) == [disp |-> d, retries |-> retries, countdown |-> countdown]

Dispatch(d) == Message(d, 0, 0)

InitDoc == [status |-> "queued", error_message |-> "null", warnings |-> <<>>]

\* the tables and the broker, whatever the file is
InitStore ==
    /\ doc = InitDoc
    /\ pages = NoPages
    /\ fields = <<>>
    /\ lines = <<>>
    /\ queue = {Dispatch(1)}
    /\ runs = <<NoRun>>
    /\ nLost = 0
    /\ nRequests = 0
    /\ lastOk = NoPass
    /\ exhausted = FALSE
    /\ documents = <<>>
    /\ uploads = [r \in UploadIds |-> NoUpload]
    /\ dispatched = {}

Init ==
    /\ file \in Files
    /\ InitStore
    /\ arg = NoCall
    /\ res = NoCall
    /\ columns = NoColumns
    /\ ocr = NoOcr

(***************************************************************************)
(* process_document (workers/tasks.py).  A run is at one of                *)
(*   extract  : status committed as processing, extract_text_from_pdf runs *)
(*   ocr      : pages added to the session, run_ocr runs                   *)
(*   classify : classify_document runs                                     *)
(*   fields   : extract_fields runs                                        *)
(*   persist  : old fields and lines deleted in the transaction, new rows  *)
(*              added, final commit not yet done                           *)
(*   ack      : final commit done, message not yet acknowledged            *)
(* A run is named by its task id and its retry number.  A redelivered run  *)
(* takes the name of the lost run it replaces: the two never coexist, and  *)
(* the rows the lost run committed are all there before the new one starts.*)
(***************************************************************************)
DispatchIds == DOMAIN runs

nDispatch == Len(runs)

Running(d) == runs[d] # NoRun

InFlight == {d \in DispatchIds : Running(d)}

\* the countdown doubled per retry instead
RetryCountdownExponential(retries) == RetryCountdownUnit * (2 ^ retries)

\* self.retry(countdown=60 * (self.request.retries + 1))
RetryCountdown(retries) == RetryCountdownUnit * (retries + 1)

\* @celery_app.task(max_retries=3): self.retry re-sends the task while
\* request.retries < max_retries and re-raises the exception otherwise
MayRetry(retries) == retries < max_retries

\* lines 29-40: load the document, set PROCESSING, commit
StartRun(d) ==
    /\ ~Running(d)
    /\ \E m \in queue :
         /\ m.disp = d
         /\ queue' = queue \ {m}
         /\ runs' = [runs EXCEPT ![d] =
                [pc |-> "extract", retries |-> m.retries, pass |-> <<d, m.retries>>,
                 del |-> {}]]
    /\ doc' = [doc EXCEPT !.status = "processing"]
    /\ UNCHANGED <<file, pages, fields, lines, nLost, nRequests, lastOk, exhausted>>
    /\ UNCHANGED <<ingestVars, callVars, serviceVars>>

\* lines 45-58 and, for a document that is not scanned, the commit of line 83
ExtractText(d) ==
    /\ Running(d)
    /\ runs[d].pc = "extract"
    /\ IF file.is_scanned
       THEN /\ runs' = [runs EXCEPT ![d].pc = "ocr"]
            /\ UNCHANGED pages
            /\ UNCHANGED doc
       ELSE /\ runs' = [runs EXCEPT ![d].pc = "classify"]
            /\ pages' = WithExtractionPages(pages, file)
            /\ doc' = [doc EXCEPT !.warnings = ExtractionWarnings(file)]
    /\ UNCHANGED <<file, fields, lines, queue, nLost, nRequests,
                   lastOk, exhausted>>
    /\ UNCHANGED <<ingestVars, callVars, serviceVars>>

\* lines 70-74: for each OCR page, the first committed row of that page
\* number (no order is asked for, so any of them; none if there is none);
\* rows added by this run are not flushed yet
MatchingPages(tbl, n) == {r \in PageRows : r.page_number = n /\ tbl[r] > 0}

NoPage == [page_number |-> 0]

OcrPicks(tbl, f) ==
    {p \in [OcrPageNumbers(f) -> PageRows \cup {NoPage}] :
        \A n \in OcrPageNumbers(f) :
            IF MatchingPages(tbl, n) = {} THEN p[n] = NoPage ELSE p[n] \in MatchingPages(tbl, n)}

\* lines 76-78: the picked rows get the OCR text and confidence
WithOcrText(tbl, p) ==
    LET taken(r) == IF r.page_number \in DOMAIN p /\ p[r.page_number] = r /\ r # OcrPage(r.page_number)
                    THEN 1 ELSE 0
        given(r) == IF r.page_number \in DOMAIN p /\ r = OcrPage(r.page_number)
                       /\ p[r.page_number] \notin {NoPage, r}
                    THEN 1 ELSE 0
    IN [r \in PageRows |-> tbl[r] - taken(r) + given(r)]

\* lines 61-83: run_ocr returned
RunOcr(d) ==
    /\ Running(d)
    /\ runs[d].pc = "ocr"
    /\ \E p \in OcrPicks(pages, file) :
         pages' = WithExtractionPages(WithOcrText(pages, p), file)
    /\ \E low \in OcrOutcomes(file) :
         doc' = [doc EXCEPT !.warnings = ExtractionWarnings(file) \o OcrWarnings(file, low)]
    /\ runs' = [runs EXCEPT ![d].pc = "classify"]
    /\ UNCHANGED <<file, fields, lines, queue, nLost, nRequests,
                   lastOk, exhausted>>
    /\ UNCHANGED <<ingestVars, callVars, serviceVars>>

\* lines 85-94: classify_document returned
Classify(d) ==
    /\ Running(d)
    /\ runs[d].pc = "classify"
    /\ runs' = [runs EXCEPT ![d].pc = "fields"]
    /\ UNCHANGED <<file, doc, pages, fields, lines, queue, nLost,
                   nRequests, lastOk, exhausted>>
    /\ UNCHANGED <<ingestVars, callVars, serviceVars>>

\* lines 96-105: extract_fields returned; the two DELETE statements run
ExtractFields(d) ==
    /\ Running(d)
    /\ runs[d].pc = "fields"
    /\ runs' = [runs EXCEPT ![d].pc = "persist",
                            ![d].del = Passes(fields) \cup Passes(lines)]
    /\ UNCHANGED <<file, doc, pages, fields, lines, queue, nLost,
                   nRequests, lastOk, exhausted>>
    /\ UNCHANGED <<ingestVars, callVars, serviceVars>>

\* lines 107-192: rows added, status EXTRACTED, commit
Persist(d) ==
    /\ Running(d)
    /\ runs[d].pc = "persist"
    /\ fields' = WithoutPasses(fields, runs[d].del) \o FieldRows(runs[d].pass)
    /\ lines' = WithoutPasses(lines, runs[d].del) \o LineRows(runs[d].pass)
    /\ doc' = [doc EXCEPT !.status = "extracted",
                           !.warnings = @ \o FieldWarnings]
    /\ lastOk' = runs[d].pass
    /\ runs' = [runs EXCEPT ![d].pc = "ack"]
    /\ UNCHANGED <<file, pages, queue, nLost, nRequests, exhausted>>
    /\ UNCHANGED <<ingestVars, callVars, serviceVars>>

\* lines 196-202 and 217: the task returns and its message is acknowledged
Ack(d) ==
    /\ Running(d)
    /\ runs[d].pc = "ack"
    /\ runs' = [runs EXCEPT ![d] = NoRun]
    /\ UNCHANGED <<file, doc, pages, fields, lines, queue, nLost,
                   nRequests, lastOk, exhausted>>
    /\ UNCHANGED <<ingestVars, callVars, serviceVars>>

\* the warnings the handler's commit writes: those of the row, or for a run
\* stopped between line 58 and line 83 those assigned at line 49, with the
\* OCR warnings of line 67 if run_ocr had returned
RaiseWarnings(d) ==
    IF runs[d].pc = "ocr"
    THEN {ExtractionWarnings(file)} \cup
         {ExtractionWarnings(file) \o OcrWarnings(file, low) : low \in OcrOutcomes(file)}
    ELSE {doc.warnings}

\* lines 204-214: run_ocr, classify_document or extract_fields raised.  The
\* handler's commit also writes the pages the session holds from line 58.
Raise(d) ==
    /\ Running(d)
    /\ runs[d].pc \in {"ocr", "classify", "fields"}
    /\ pages' = IF runs[d].pc = "ocr" THEN WithExtractionPages(pages, file) ELSE pages
    /\ \E w \in RaiseWarnings(d) :
         doc' = [doc EXCEPT !.status = "failed", !.error_message = "exception",
                            !.warnings = w]
    /\ IF MayRetry(runs[d].retries)
       THEN /\ queue' = queue \cup
                    {Message(d, runs[d].retries + 1, RetryCountdown(runs[d].retries))}
            /\ UNCHANGED exhausted
       ELSE /\ exhausted' = TRUE
            /\ UNCHANGED queue
    /\ runs' = [runs EXCEPT ![d] = NoRun]
    /\ UNCHANGED <<file, fields, lines, nLost, nRequests, lastOk>>
    /\ UNCHANGED <<ingestVars, callVars, serviceVars>>

\* celery_app.py:24 task_acks_late=True: a message is acknowledged after the
\* task has run, so the broker delivers it again when the worker is lost
\* first; the lost run's open transaction is rolled back.
WorkerLost(d) ==
    /\ Running(d)
    /\ nLost' = nLost + 1
    /\ queue' = queue \cup {Message(d, runs[d].retries, 0)}
    /\ runs' = [runs EXCEPT ![d] = NoRun]
    /\ UNCHANGED <<file, doc, pages, fields, lines, nRequests, lastOk, exhausted>>
    /\ UNCHANGED <<ingestVars, callVars, serviceVars>>

(***************************************************************************)
(* HTTP handlers.  Each handler commits once, so it is one step.  The role *)
(* checks are left to the API layer: the requests are those of a user who  *)
(* may issue them.                                                         *)
(***************************************************************************)
\* routers/documents.py:416-460
ReprocessDocuments ==
    /\ nRequests' = nRequests + 1
    /\ fields' = <<>>
    /\ lines' = <<>>
    /\ pages' = NoPages
    /\ doc' = [doc EXCEPT !.status = "queued", !.error_message = "null",
                           !.warnings = <<>>]
    /\ runs' = Append(runs, NoRun)
    /\ queue' = queue \cup {Dispatch(nDispatch + 1)}
    /\ lastOk' = NoPass
    /\ exhausted' = FALSE
    /\ UNCHANGED <<file, nLost>>
    /\ UNCHANGED <<ingestVars, callVars, serviceVars>>

\* routers/ingestion.py:252-284
ReprocessIngestion ==
    /\ nRequests' = nRequests + 1
    /\ fields' = <<>>
    /\ lines' = <<>>
    /\ doc' = [doc EXCEPT !.status = "queued"]
    /\ runs' = Append(runs, NoRun)
    /\ queue' = queue \cup {Dispatch(nDispatch + 1)}
    /\ lastOk' = NoPass
    /\ exhausted' = FALSE
    /\ UNCHANGED <<file, pages, nLost>>
    /\ UNCHANGED <<ingestVars, callVars, serviceVars>>

\* routers/documents.py:463-486
StopProcessing ==
    /\ nRequests' = nRequests + 1
    /\ doc' = [doc EXCEPT !.status = "failed", !.error_message = "stopped"]
    /\ UNCHANGED <<file, pages, fields, lines, queue, runs, nLost,
                   lastOk, exhausted>>
    /\ UNCHANGED <<ingestVars, callVars, serviceVars>>

\* routers/documents.py:57-81 with a DocumentUpdate that sets status
UpdateDocument(status) ==
    /\ nRequests' = nRequests + 1
    /\ doc' = [doc EXCEPT !.status = status]
    /\ UNCHANGED <<file, pages, fields, lines, queue, runs, nLost,
                   lastOk, exhausted>>
    /\ UNCHANGED <<ingestVars, callVars, serviceVars>>

\* routers/documents.py:272-311.  DocumentPage (models/document.py:92-105)
\* maps no rotation_angle column: on a stored page the assignment of line
\* 300 reaches no column, and the constructor of line 303 rejects the
\* keyword (TypeError), so no row is written either way.
SetPageRotation(page_num, rotation) ==
    /\ nRequests' = nRequests + 1
    /\ UNCHANGED <<file, doc, pages, fields, lines, queue, runs, nLost,
                   lastOk, exhausted>>
    /\ UNCHANGED <<ingestVars, callVars, serviceVars>>

\* routers/documents.py:314-343.  workers/tasks.py defines no
\* process_document_after_rotation, so the import of line 321 raises before
\* the document is read: the request ends with an internal server error
\* whatever the status is.  (DocumentStatus, models/document.py:22-28, has no
\* NEEDS_ROTATION member either, so line 330 could not be evaluated.)
\* The status code of the response:
ConfirmRotationCode(status) == 500

ConfirmRotation ==
    /\ nRequests' = nRequests + 1
    /\ UNCHANGED <<file, doc, pages, fields, lines, queue, runs, nLost,
                   lastOk, exhausted>>
    /\ UNCHANGED <<ingestVars, callVars, serviceVars>>

(***************************************************************************)
(* upload_files and ingest_folder (routers/ingestion.py).  A request walks *)
(* its files one by one and commits once after the loop; Document rows it  *)
(* has added are in its session only until then.  The documents table has  *)
(* no unique constraint on (tenant_id, file_hash): ix_documents_hash       *)
(* (alembic/versions/001_initial.py:75) is a plain index.                  *)
(***************************************************************************)
Serving(r) == uploads[r] \notin {NoUpload, UploadDone}

\* lines 117-120 and 198-201: a committed Document of the tenant with the hash
Existing(tenant, file_hash) ==
    \E i \in 1..Len(documents) :
        documents[i].tenant_id = tenant /\ documents[i].file_hash = file_hash

NewDocument(tenant, file_hash) ==
    [tenant_id |-> tenant, file_hash |-> file_hash, status |-> "queued"]

\* lines 53-73: the request of a tenant's user arrives
BeginUpload(r, tenant) ==
    /\ uploads[r] = NoUpload
    /\ uploads' = [uploads EXCEPT ![r] =
            [kind |-> "upload", tenant |-> tenant, n |-> 0, created |-> <<>>]]
    /\ UNCHANGED <<documents, dispatched>>
    /\ UNCHANGED <<pipelineVars, callVars, serviceVars>>

\* lines 75-140: one file of the request; accepted is false for a file that
\* is skipped before it is hashed (unsupported type, too large, unreadable)
UploadFile(r, file_hash, accepted) ==
    /\ Serving(r)
    /\ uploads[r].kind = "upload"
    /\ uploads[r].n < MaxFiles
    /\ uploads' = [uploads EXCEPT
            ![r].n = @ + 1,
            ![r].created = IF accepted /\ ~Existing(uploads[r].tenant, file_hash)
                           THEN Append(@, file_hash) ELSE @]
    /\ UNCHANGED <<documents, dispatched>>
    /\ UNCHANGED <<pipelineVars, callVars, serviceVars>>

\* the rows a request's commit writes, and their ids
Committed(r) ==
    LET row(i) == NewDocument(uploads[r].tenant, uploads[r].created[i])
    IN SeqOf(row, 1, Len(uploads[r].created))

CommittedIds(r) == (Len(documents) + 1)..(Len(documents) + Len(uploads[r].created))

\* lines 142-153: commit, then process_document.delay() for each new row
UploadCommit(r) ==
    /\ Serving(r)
    /\ uploads[r].kind = "upload"
    /\ documents' = documents \o Committed(r)
    /\ dispatched' = dispatched \cup CommittedIds(r)
    /\ uploads' = [uploads EXCEPT ![r] = UploadDone]
    /\ UNCHANGED <<pipelineVars, callVars, serviceVars>>

\* lines 156-188: the request is served for a folder on the allowed list
BeginFolder(r, tenant, allowed) ==
    /\ uploads[r] = NoUpload
    /\ uploads' = [uploads EXCEPT ![r] =
            IF allowed
            THEN [kind |-> "folder", tenant |-> tenant, n |-> 0, created |-> <<>>]
            ELSE UploadDone]
    /\ UNCHANGED <<documents, dispatched>>
    /\ UNCHANGED <<pipelineVars, callVars, serviceVars>>

\* lines 190-224: one file of the folder; accepted is false for a file over
\* the size limit
FolderFile(r, file_hash, accepted) ==
    /\ Serving(r)
    /\ uploads[r].kind = "folder"
    /\ uploads[r].n < MaxFiles
    /\ uploads' = [uploads EXCEPT
            ![r].n = @ + 1,
            ![r].created = IF accepted /\ ~Existing(uploads[r].tenant, file_hash)
                           THEN Append(@, file_hash) ELSE @]
    /\ UNCHANGED <<documents, dispatched>>
    /\ UNCHANGED <<pipelineVars, callVars, serviceVars>>

\* lines 226-237
FolderCommit(r) ==
    /\ Serving(r)
    /\ uploads[r].kind = "folder"
    /\ documents' = documents \o Committed(r)
    /\ dispatched' = dispatched \cup CommittedIds(r)
    /\ uploads' = [uploads EXCEPT ![r] = UploadDone]
    /\ UNCHANGED <<pipelineVars, callVars, serviceVars>>

(***************************************************************************)
(* Specification                                                           *)
(***************************************************************************)
MayRequest == nRequests < MaxRequests
MayDispatch == nDispatch < MaxDispatch

Next ==
    \/ \E d \in DispatchIds : StartRun(d)
    \/ \E d \in DispatchIds : ExtractText(d)
    \/ \E d \in DispatchIds : RunOcr(d)
    \/ \E d \in DispatchIds : Classify(d)
    \/ \E d \in DispatchIds : ExtractFields(d)
    \/ \E d \in DispatchIds : Persist(d)
    \/ \E d \in DispatchIds : Ack(d)
    \/ \E d \in DispatchIds : Raise(d)
    \/ \E d \in DispatchIds : nLost < MaxLost /\ WorkerLost(d)
    \/ MayRequest /\ MayDispatch /\ ReprocessDocuments
    \/ MayRequest /\ MayDispatch /\ ReprocessIngestion
    \/ MayRequest /\ StopProcessing
    \/ MayRequest /\ \E status \in DocumentStatus : UpdateDocument(status)
    \/ MayRequest /\ \E page_num \in 1..(MaxPages + 1), rotation \in Rotations :
            SetPageRotation(page_num, rotation)
    \/ MayRequest /\ ConfirmRotation

Spec == Init /\ [][Next]_vars

\* every run, its retries included, ends before the next request is made or
\* the next message is delivered
Idle == queue = {} /\ InFlight = {}

MaySerialRequest == Idle /\ nRequests < MaxSerialRequests /\ nDispatch < MaxSerialDispatch

NextSerial ==
    \/ \E d \in DispatchIds : InFlight = {} /\ StartRun(d)
    \/ \E d \in DispatchIds : ExtractText(d)
    \/ \E d \in DispatchIds : RunOcr(d)
    \/ \E d \in DispatchIds : Classify(d)
    \/ \E d \in DispatchIds : ExtractFields(d)
    \/ \E d \in DispatchIds : Persist(d)
    \/ \E d \in DispatchIds : Ack(d)
    \/ \E d \in DispatchIds : Raise(d)
    \/ \E d \in DispatchIds : nLost < MaxLost /\ WorkerLost(d)
    \/ MaySerialRequest /\ ReprocessDocuments
    \/ MaySerialRequest /\ ReprocessIngestion

SpecSerial == Init /\ [][NextSerial]_vars

NextIngest ==
    \/ \E r \in UploadIds, tenant \in Tenants : BeginUpload(r, tenant)
    \/ \E r \in UploadIds, file_hash \in Hashes, accepted \in BOOLEAN :
            UploadFile(r, file_hash, accepted)
    \/ \E r \in UploadIds : UploadCommit(r)
    \/ \E r \in UploadIds, tenant \in Tenants, allowed \in BOOLEAN :
            BeginFolder(r, tenant, allowed)
    \/ \E r \in UploadIds, file_hash \in Hashes, accepted \in BOOLEAN :
            FolderFile(r, file_hash, accepted)
    \/ \E r \in UploadIds : FolderCommit(r)

SpecIngest == Init /\ [][NextIngest]_vars

\* celery_app.py:22 task_time_limit=300: a run that lasts longer is ended by
\* killing its worker process.  No line of the task runs after that, the
\* handler of lines 204-214 included; the open transaction is rolled back and
\* the message is acknowledged, so the task is not delivered again.  run_ocr
\* alone waits up to 700 seconds for one page (ocr.py:268).
TimeLimit(d) ==
    /\ Running(d)
    /\ runs' = [runs EXCEPT ![d] = NoRun]
    /\ UNCHANGED <<file, doc, pages, fields, lines, queue, nLost, nRequests,
                   lastOk, exhausted>>
    /\ UNCHANGED <<ingestVars, callVars, serviceVars>>

\* the task and its deliveries alone: the broker delivers a queued message,
\* a run goes on to its next stage unless it raises, its worker is lost or
\* the time limit ends it
Delivery == \E d \in DispatchIds : StartRun(d)

Progress ==
    \E d \in DispatchIds :
        \/ ExtractText(d)
        \/ RunOcr(d)
        \/ Classify(d)
        \/ ExtractFields(d)
        \/ Persist(d)
        \/ Ack(d)

NextLive ==
    \/ Delivery
    \/ Progress
    \/ \E d \in DispatchIds : Raise(d)
    \/ \E d \in DispatchIds : nLost < MaxLost /\ WorkerLost(d)
    \/ \E d \in DispatchIds : TimeLimit(d)

SpecLive ==
    /\ Init
    /\ [][NextLive]_vars
    /\ WF_vars(Delivery)
    /\ WF_vars(Progress)

TypeOK ==
    /\ file \in Files
    /\ doc.status \in DocumentStatus
    /\ doc.error_message \in {"null", "exception", "stopped"}
    /\ nLost \in 0..MaxLost
    /\ \A m \in queue : m.disp \in DispatchIds /\ m.retries \in 0..max_retries
    /\ \A d \in DispatchIds : Running(d) => runs[d].retries \in 0..max_retries

(***************************************************************************)
(* classify_by_rules (services/classification.py).  A text is given by the *)
(* strings of the rule tables it contains (after lower()) and the patterns *)
(* of the rule tables that match it; every combination is taken, which     *)
(* covers every text.  Scores are in tenths, confidences in 1/10000.       *)
(***************************************************************************)
\* CLASSIFICATION_RULES in priority order
DocTypes == <<"preventivo", "ddt", "fattura", "po">>

\* the keywords of type t, in the order the loop of lines 140-143 tries them
KeywordList(t) ==
    CASE t = "preventivo" ->
            <<"preventivo", "offerta", "quotazione", "proposta commerciale", "quote",
              "proposal", "estimate", "stima", "offerta commerciale", "ns. offerta",
              "nostra offerta">>
      [] t = "ddt" ->
            <<"documento di trasporto", "ddt", "bolla di accompagnamento",
              "delivery note", "packing list", "bolla">>
      [] t = "fattura" ->
            <<"fattura", "invoice", "fattura elettronica", "nota di credito",
              "ricevuta fiscale", "parcella">>
      [] t = "po" ->
            <<"ordine", "order", "ordine d'acquisto", "purchase order",
              "ordine di acquisto", "conferma ordine", "o.d.a.", "oda">>

Keywords(t) == {KeywordList(t)[i] : i \in 1..Len(KeywordList(t))}

NegativeKeywords(t) ==
    CASE t = "preventivo" -> {}
      [] t = "ddt" -> {"fattura", "preventivo", "ordine"}
      [] t = "fattura" -> {"preventivo", "offerta", "proposta"}
      [] t = "po" -> {"fattura", "ddt", "preventivo"}

\* the number of entries in "patterns"
PatternCount(t) ==
    CASE t = "preventivo" -> 6
      [] t = "ddt" -> 8
      [] t = "fattura" -> 8
      [] t = "po" -> 5

\* the i-th pattern of type t is named <<t, i>>
Patterns(t) == {<<t, i>> : i \in 1..PatternCount(t)}

TypeSet == {DocTypes[i] : i \in 1..Len(DocTypes)}

\* every string looked for in the text, every pattern matched against it
AllTerms == UNION {Keywords(t) \cup NegativeKeywords(t) : t \in TypeSet}
AllPatterns == UNION {Patterns(t) : t \in TypeSet}

FilenameBonus == 30
KeywordScore == 10
PatternScore == 25
\* a negative keyword taking back what a keyword gives
NegativePenaltyOfKeyword == KeywordScore

NegativePenalty == 5
MaxRuleConfidence == 9500

\* lines 130-157: the score of type t
Score(t, text, filename_match) ==
    (IF filename_match = t THEN FilenameBonus ELSE 0)
    + KeywordScore * Cardinality(Keywords(t) \cap text.terms)
    + PatternScore * Cardinality(Patterns(t) \cap text.patterns)
    - NegativePenalty * Cardinality(NegativeKeywords(t) \cap text.terms)

NoResult == [doc_type |-> "none"]

\* the first type, in the order of seq, with the highest score among those of S
FirstBest(S, text, filename_match) ==
    LET top(i) == /\ DocTypes[i] \in S
                  /\ \A j \in 1..Len(DocTypes) :
                        DocTypes[j] \in S =>
                            Score(DocTypes[j], text, filename_match)
                                <= Score(DocTypes[i], text, filename_match)
    IN DocTypes[CHOOSE i \in 1..Len(DocTypes) :
                    top(i) /\ \A j \in 1..(i - 1) : ~top(j)]

\* lines 125-183
classify_by_rules(text, filename_match) ==
    LET scores == {t \in TypeSet : Score(t, text, filename_match) > 0} IN
    IF scores = {} THEN NoResult
    ELSE LET best_type == FirstBest(scores, text, filename_match)
             best_score == Score(best_type, text, filename_match)
             base == IF best_score * 100 < MaxRuleConfidence
                     THEN best_score * 100 ELSE MaxRuleConfidence
             others == scores \ {best_type}
             ambiguous ==
                 /\ others # {}
                 /\ Score(FirstBest(others, text, filename_match), text, filename_match) * 10
                        >= best_score * 8
         IN [doc_type |-> best_type,
             confidence |-> IF ambiguous THEN (base * 7) \div 10 ELSE base,
             method |-> "rules"]

RECURSIVE SubsetsUpTo(_, _)
\* the subsets of U with at most k elements
SubsetsUpTo(U, k) ==
    IF k = 0 THEN {{}}
    ELSE LET smaller == SubsetsUpTo(U, k - 1)
         IN smaller \cup {x \cup {e} : x \in smaller, e \in U}

\* the texts with at most MaxMatches strings and patterns found in them
Texts ==
    LET found == {<<"string", k, 0>> : k \in AllTerms}
                 \cup {<<"pattern", p[1], p[2]>> : p \in AllPatterns}
    IN {[terms |-> {x[2] : x \in {y \in m : y[1] = "string"}},
         patterns |-> {<<x[2], x[3]>> : x \in {y \in m : y[1] = "pattern"}}] :
            m \in SubsetsUpTo(found, MaxMatches)}

\* lines 130-144: the type a filename hints at, "none" for the empty filename
FilenameMatches == TypeSet \cup {"none"}

\* a call of a service function is studied with the document left as uploaded
InitCall(calls) ==
    /\ file = [np |-> 0, is_scanned |-> TRUE]
    /\ InitStore
    /\ arg \in calls
    /\ res = NoCall
    /\ columns = NoColumns
    /\ ocr = NoOcr

Returns(fn, value) ==
    /\ arg.fn = fn
    /\ res = NoCall
    /\ res' = [fn |-> fn, value |-> value]
    /\ UNCHANGED <<arg, pipelineVars, ingestVars, serviceVars>>

ClassifyCalls ==
    {[fn |-> "classify_by_rules", text |-> t, filename_match |-> h] :
        t \in Texts, h \in FilenameMatches}

CallClassifyByRules ==
    /\ arg.fn = "classify_by_rules"
    /\ Returns("classify_by_rules", classify_by_rules(arg.text, arg.filename_match))

SpecClassify == InitCall(ClassifyCalls) /\ [][CallClassifyByRules]_vars

\* the strings of the text that are keywords of some type
KeywordsIn(text) == text.terms \cap UNION {Keywords(t) : t \in TypeSet}

\* only type t has a keyword or a pattern in the text
OnlyMatches(t, text) ==
    /\ KeywordsIn(text) \subseteq Keywords(t)
    /\ text.patterns \subseteq Patterns(t)
    /\ KeywordsIn(text) \cup text.patterns # {}

\* C15: with the empty filename, classify_by_rules returns type T with
\* confidence > 0 and method "rules" for a text in which only T's keywords
\* or patterns match, and no result (never "other") for a text in which no
\* type has a positive score.
C15_RulesClassification ==
    (res # NoCall /\ res.fn = "classify_by_rules" /\ arg.filename_match = "none") =>
        /\ \A t \in TypeSet :
              OnlyMatches(t, arg.text) =>
                  /\ res.value # NoResult
                  /\ res.value.doc_type = t
                  /\ res.value.confidence > 0
                  /\ res.value.method = "rules"
        /\ (\A t \in TypeSet : Score(t, arg.text, "none") <= 0) <=> res.value = NoResult
        /\ res.value.doc_type \in TypeSet \cup {"none"}

C15_Witness ==
    /\ res # NoCall
    /\ res.fn = "classify_by_rules"
    /\ arg.filename_match = "none"
    /\ arg.text = [terms |-> {"parcella", "proposta"}, patterns |-> {}]
    /\ res.value = [doc_type |-> "fattura", confidence |-> 500, method |-> "rules"]


(***************************************************************************)
(* normalize_amount (services/metatag.py).  A string is a sequence of      *)
(* one-character strings.                                                  *)
(***************************************************************************)
DigitChars == <<"0", "1", "2", "3", "4", "5", "6", "7", "8", "9">>

IsDigit(c) == \E i \in 1..10 : DigitChars[i] = c

DigitValue(c) == (CHOOSE i \in 1..10 : DigitChars[i] = c) - 1

None == <<"None">>

Has(str, c) == \E i \in 1..Len(str) : str[i] = c

\* str.rfind(c), from 1; 0 when c does not occur
RFind(str, c) ==
    IF Has(str, c) THEN CHOOSE i \in 1..Len(str) : str[i] = c /\ \A j \in (i + 1)..Len(str) : str[j] # c
    ELSE 0

\* str.replace(c, '')
Without(str, c) == SelectSeq(str, LAMBDA x : x # c)

\* str.replace(c, d)
Replaced(str, c, d) == [i \in 1..Len(str) |-> IF str[i] = c THEN d ELSE str[i]]

CountOf(str, c) == Len(SelectSeq(str, LAMBDA x : x = c))

\* len(str.split(c)[1]) when str.split(c) has two parts
AfterOnly(str, c) == Len(str) - RFind(str, c)

RECURSIVE ToNat(_)
\* the number a sequence of digits writes; 0 for the empty sequence
ToNat(digits) ==
    IF digits = <<>> THEN 0
    ELSE 10 * ToNat(SubSeq(digits, 1, Len(digits) - 1)) + DigitValue(digits[Len(digits)])

RECURSIVE ToDigits(_)
\* the decimal digits of n, without leading zeros ("0" for 0)
ToDigits(n) ==
    IF n < 10 THEN <<DigitChars[n + 1]>>
    ELSE ToDigits(n \div 10) \o <<DigitChars[(n % 10) + 1]>>

RECURSIVE Pow10(_)
Pow10(n) == IF n = 0 THEN 1 ELSE 10 * Pow10(n - 1)

\* float(str) succeeds: digits with at most one '.', at least one digit
\* (the strings here hold digits and '.' only at this point)
IsFloat(str) ==
    /\ \A i \in 1..Len(str) : IsDigit(str[i]) \/ str[i] = "."
    /\ CountOf(str, ".") <= 1
    /\ \E i \in 1..Len(str) : IsDigit(str[i])

\* f"{float(str):.2f}".  The digits after the second decimal decide the
\* rounding; a decimal exactly half-way is decided by its binary double, and
\* is written here as rounded down.
Fixed2(str) ==
    LET dot == RFind(str, ".")
        int == IF dot = 0 THEN str ELSE SubSeq(str, 1, dot - 1)
        frac == IF dot = 0 THEN <<>> ELSE SubSeq(str, dot + 1, Len(str))
        two == SubSeq(frac \o <<"0", "0">>, 1, 2)
        rest == IF Len(frac) > 2 THEN SubSeq(frac, 3, Len(frac)) ELSE <<>>
        up == IF 2 * ToNat(rest) > Pow10(Len(rest)) THEN 1 ELSE 0
        cents == 100 * ToNat(int) + ToNat(two) + up
        c == cents % 100
    IN ToDigits(cents \div 100) \o <<".">> \o <<DigitChars[(c \div 10) + 1], DigitChars[(c % 10) + 1]>>

\* line 71: re.sub(r'[€$\s]', '', amount_str)
Cleaned(str) == SelectSeq(str, LAMBDA x : x \notin {"€", "$", " "})

\* a comma is the decimal separator only with exactly two digits after it
DecimalCommaExactlyTwo(cleaned) == CountOf(cleaned, ",") = 1 /\ AfterOnly(cleaned, ",") = 2

\* line 92: len(parts) == 2 and len(parts[1]) <= 2
DecimalComma(cleaned) == CountOf(cleaned, ",") = 1 /\ AfterOnly(cleaned, ",") <= 2

\* lines 77-106: the separators of the cleaned string resolved
Separated(cleaned) ==
    LET has_dot == Has(cleaned, ".")
        has_comma == Has(cleaned, ",")
    IN IF has_comma /\ has_dot
       THEN IF RFind(cleaned, ",") > RFind(cleaned, ".")
            THEN Replaced(Without(cleaned, "."), ",", ".")
            ELSE Without(cleaned, ",")
       ELSE IF has_comma
       THEN IF DecimalComma(cleaned)
            THEN Replaced(cleaned, ",", ".")
            ELSE Without(cleaned, ",")
       ELSE IF has_dot /\ CountOf(cleaned, ".") = 1 /\ AfterOnly(cleaned, ".") = 3
       THEN Without(cleaned, ".")
       ELSE cleaned

\* lines 58-113
normalize_amount(amount_str) ==
    IF amount_str = <<>> THEN None
    ELSE IF Cleaned(amount_str) = <<>> THEN None
    ELSE LET cleaned == Separated(Cleaned(amount_str))
         IN IF IsFloat(cleaned) THEN Fixed2(cleaned) ELSE amount_str

AmountChars == {"0", "1", ",", ".", "€"}

RECURSIVE StringsUpTo(_, _)
\* the strings over chars with at most n characters
StringsUpTo(chars, n) ==
    IF n = 0 THEN {<<>>}
    ELSE LET shorter == StringsUpTo(chars, n - 1)
         IN shorter \cup {Append(x, c) : x \in shorter, c \in chars}

\* "1.234,56", "100,00", "1,234.56"
AmountExamples ==
    {<<"1", ".", "2", "3", "4", ",", "5", "6">>,
     <<"1", "0", "0", ",", "0", "0">>,
     <<"1", ",", "2", "3", "4", ".", "5", "6">>}

AmountCalls ==
    {[fn |-> "normalize_amount", amount_str |-> x] :
        x \in StringsUpTo(AmountChars, MaxAmountLen) \cup AmountExamples}

CallNormalizeAmount ==
    /\ arg.fn = "normalize_amount"
    /\ Returns("normalize_amount", normalize_amount(arg.amount_str))

SpecAmount == InitCall(AmountCalls) /\ [][CallNormalizeAmount]_vars

\* the separator rule as stated: both kinds - the later one is the decimal
\* separator; a lone ',' - decimal only with exactly 2 digits after it, else
\* removed; a lone '.' - removed with exactly 3 digits after it, else kept
StatedSeparated(cleaned) ==
    LET has_dot == Has(cleaned, ".")
        has_comma == Has(cleaned, ",")
    IN IF has_comma /\ has_dot
       THEN IF RFind(cleaned, ",") > RFind(cleaned, ".")
            THEN Replaced(Without(cleaned, "."), ",", ".")
            ELSE Without(cleaned, ",")
       ELSE IF has_comma
       THEN IF DecimalCommaExactlyTwo(cleaned)
            THEN Replaced(cleaned, ",", ".")
            ELSE Without(cleaned, ",")
       ELSE IF has_dot /\ CountOf(cleaned, ".") = 1 /\ AfterOnly(cleaned, ".") = 3
       THEN Without(cleaned, ".")
       ELSE cleaned

\* C16: for every input of digits, '.' and ',' (currency signs removed)
\* normalize_amount returns the number the stated separator rule reads,
\* with two decimals, and returns an input that cannot be parsed unchanged.
C16_AmountSeparatorRule ==
    (res # NoCall /\ res.fn = "normalize_amount" /\ Cleaned(arg.amount_str) # <<>>) =>
        LET stated == StatedSeparated(Cleaned(arg.amount_str))
        IN res.value = (IF IsFloat(stated) THEN Fixed2(stated) ELSE arg.amount_str)

(***************************************************************************)
(* normalize_date (services/metatag.py).  datetime.strptime matches the    *)
(* whole string against the format: %d and %m take one or two digits, %Y   *)
(* four, %y two; between them stands the separator of the format.          *)
(***************************************************************************)
\* the formats of lines 41-45, in order
DateFormats ==
    <<[order |-> <<"d", "m", "Y">>, sep |-> "/"],
      [order |-> <<"d", "m", "Y">>, sep |-> "-"],
      [order |-> <<"d", "m", "Y">>, sep |-> "."],
      [order |-> <<"d", "m", "y">>, sep |-> "/"],
      [order |-> <<"d", "m", "y">>, sep |-> "-"],
      [order |-> <<"d", "m", "y">>, sep |-> "."],
      [order |-> <<"Y", "m", "d">>, sep |-> "-"]>>

\* str.strip()
RECURSIVE Strip(_)
Strip(str) ==
    IF str # <<>> /\ Head(str) = " " THEN Strip(Tail(str))
    ELSE IF str # <<>> /\ str[Len(str)] = " " THEN Strip(SubSeq(str, 1, Len(str) - 1))
    ELSE str

NonDigits(str) == {i \in 1..Len(str) : ~IsDigit(str[i])}

\* the string is three runs of digits with one character between them
ThreeRuns(str) ==
    /\ Cardinality(NonDigits(str)) = 2
    /\ LET i == CHOOSE x \in NonDigits(str) : \A y \in NonDigits(str) : x <= y
           j == CHOOSE x \in NonDigits(str) : \A y \in NonDigits(str) : y <= x
       IN 1 < i /\ i + 1 < j /\ j < Len(str)

\* the three runs and the two characters between them
Runs(str) ==
    LET i == CHOOSE x \in NonDigits(str) : \A y \in NonDigits(str) : x <= y
        j == CHOOSE x \in NonDigits(str) : \A y \in NonDigits(str) : y <= x
    IN [run |-> <<SubSeq(str, 1, i - 1), SubSeq(str, i + 1, j - 1),
                  SubSeq(str, j + 1, Len(str))>>,
        sep |-> <<str[i], str[j]>>]

\* the digits a directive accepts (the regular expressions of _strptime)
Accepts(directive, digits) ==
    CASE directive = "d" -> Len(digits) \in {1, 2} /\ ToNat(digits) \in 1..31
      [] directive = "m" -> Len(digits) \in {1, 2} /\ ToNat(digits) \in 1..12
      [] directive = "Y" -> Len(digits) = 4
      [] directive = "y" -> Len(digits) = 2

\* %y: 69-99 are the years 1969-1999, 00-68 the years 2000-2068
TwoDigitYearPivot == 69

YearOf(yy) == IF yy >= TwoDigitYearPivot THEN 1900 + yy ELSE 2000 + yy

IsLeap(year) == (year % 4 = 0 /\ year % 100 # 0) \/ year % 400 = 0

DaysIn(month, year) ==
    IF month = 2 THEN (IF IsLeap(year) THEN 29 ELSE 28)
    ELSE IF month \in {4, 6, 9, 11} THEN 30 ELSE 31

\* a date of the calendar of datetime (years 1 to 9999)
ValidDate(year, month, day) ==
    /\ year \in 1..9999
    /\ month \in 1..12
    /\ day \in 1..DaysIn(month, year)

NoDate == [year |-> 0, month |-> 0, day |-> 0]

\* datetime.strptime(str, fmt): the date, NoDate for ValueError
Strptime(str, fmt) ==
    IF ~ThreeRuns(str) THEN NoDate
    ELSE LET r == Runs(str)
             at(directive) ==
                 r.run[CHOOSE k \in 1..3 : fmt.order[k] = directive]
             two == \E k \in 1..3 : fmt.order[k] = "y"
             year == IF two THEN YearOf(ToNat(at("y"))) ELSE ToNat(at("Y"))
             date == [year |-> year, month |-> ToNat(at("m")), day |-> ToNat(at("d"))]
         IN IF /\ r.sep = <<fmt.sep, fmt.sep>>
               /\ \A k \in 1..3 : Accepts(fmt.order[k], r.run[k])
               /\ ValidDate(date.year, date.month, date.day)
            THEN date ELSE NoDate

Padded(n, width) ==
    LET d == ToDigits(n)
    IN IF Len(d) >= width THEN d
       ELSE [i \in 1..(width - Len(d)) |-> "0"] \o d

\* dt.strftime("%Y-%m-%d")
IsoFormat(date) ==
    Padded(date.year, 4) \o <<"-">> \o Padded(date.month, 2) \o <<"-">> \o Padded(date.day, 2)

\* lines 36-55
normalize_date(date_str) ==
    IF date_str = <<>> THEN None
    ELSE LET str == Strip(date_str)
             parsed(i) == Strptime(str, DateFormats[i])
             ok == {i \in 1..Len(DateFormats) : parsed(i) # NoDate}
         IN IF ok = {} THEN date_str
            ELSE LET dt == parsed(CHOOSE i \in ok : \A j \in ok : i <= j)
                 IN IsoFormat(IF dt.year < 100
                              THEN [dt EXCEPT !.year = dt.year + 2000] ELSE dt)

\* the digit runs a date string is put together from
DateRuns ==
    {<<"1">>, <<"0", "2">>, <<"1", "2">>, <<"1", "3">>, <<"2", "9">>, <<"3", "1">>,
     <<"6", "8">>, <<"6", "9">>, <<"9", "9">>, <<"0", "2", "4">>,
     <<"2", "0", "2", "3">>, <<"2", "0", "2", "4">>}

DateSeparators == {"/", "-", "."}

DateCalls ==
    {[fn |-> "normalize_date", date_str |-> a \o <<s1>> \o b \o <<s2>> \o c] :
        a \in DateRuns, b \in DateRuns, c \in DateRuns,
        s1 \in DateSeparators, s2 \in DateSeparators}

CallNormalizeDate ==
    /\ arg.fn = "normalize_date"
    /\ Returns("normalize_date", normalize_date(arg.date_str))

SpecDate == InitCall(DateCalls) /\ [][CallNormalizeDate]_vars

\* the date a string states when it is day, month, year with one of the
\* three separators, or ISO; two-digit years are the years 2000 + yy
StatedDate(str) ==
    IF ~ThreeRuns(str) THEN NoDate
    ELSE LET r == Runs(str)
             dmy == /\ r.sep[1] = r.sep[2] /\ r.sep[1] \in DateSeparators
                    /\ Accepts("d", r.run[1]) /\ Accepts("m", r.run[2])
                    /\ Len(r.run[3]) \in {2, 4}
             iso == /\ r.sep = <<"-", "-">>
                    /\ Accepts("Y", r.run[1]) /\ Accepts("m", r.run[2])
                    /\ Accepts("d", r.run[3])
             date == IF dmy
                     THEN [year |-> IF Len(r.run[3]) = 2 THEN 2000 + ToNat(r.run[3])
                                    ELSE ToNat(r.run[3]),
                           month |-> ToNat(r.run[2]), day |-> ToNat(r.run[1])]
                     ELSE [year |-> ToNat(r.run[1]), month |-> ToNat(r.run[2]),
                           day |-> ToNat(r.run[3])]
         IN IF (dmy \/ iso) /\ ValidDate(date.year, date.month, date.day)
            THEN date ELSE NoDate

\* C17: normalize_date returns YYYY-MM-DD for every valid day/month/year
\* string with '/', '-' or '.' and a four-digit year or in ISO form, the
\* year 2000 + yy for a two-digit year yy, and any other input unchanged.
C17_DateNormalization ==
    (res # NoCall /\ res.fn = "normalize_date") =>
        res.value = (IF StatedDate(arg.date_str) # NoDate
                     THEN IsoFormat(StatedDate(arg.date_str))
                     ELSE arg.date_str)

(***************************************************************************)
(* Stages 3 and 4 of process_document without the LLM: classify_document   *)
(* (services/classification.py) and extract_fields with                    *)
(* extract_by_rules_fallback (services/metatag.py), on texts of the form   *)
(*   <label> <marker>[ ]<number> <date_intro> <date>, <piva_label> <piva>, *)
(*   TOTALE € 1.234,56                                                     *)
(* Both functions lower-case the text first, so the parts are lower case.  *)
(***************************************************************************)
Labels == {"fattura", "ddt", "ordine", "bolla"}
Markers == {"n.", "n:", "n", "nr."}
Gaps == {0, 1}
Numbers == {<<"2", "0", "2", "4", "/", "0", "0", "1", "2", "3">>,
            <<"a", "1", "2">>, <<"a", "b">>, <<"7">>}
DateIntros == {"del", "data", "data documento:"}
Dates == {<<"1", "5", "/", "0", "3", "/", "2", "0", "2", "4">>,
          <<"0", "1", "-", "1", "2", "-", "9", "9">>,
          <<"1", "5", "/", "0", "3", "-", "2", "0", "2", "4">>,
          <<"2", "0", "2", "4", "-", "0", "3", "-", "1", "5">>}
PivaLabels == {"p.iva", "partita iva", "c.f."}
\* the digits 1234567890123... of the given length
PivaDigits(n) == [i \in 1..n |-> DigitChars[(i % 10) + 1]]
PivaLengths == {10, 11, 12}

InvoiceTexts ==
    [label : Labels, marker : Markers, gap : Gaps, number : Numbers,
     date_intro : DateIntros, date : Dates, piva_label : PivaLabels,
     piva : {PivaDigits(n) : n \in PivaLengths}]

\* "FATTURA N. 2024/00123 del 15/03/2024, P.IVA 12345678901, TOTALE € 1.234,56"
InvoiceSample ==
    [label |-> "fattura", marker |-> "n.", gap |-> 1,
     number |-> <<"2", "0", "2", "4", "/", "0", "0", "1", "2", "3">>,
     date_intro |-> "del",
     date |-> <<"1", "5", "/", "0", "3", "/", "2", "0", "2", "4">>,
     piva_label |-> "p.iva", piva |-> PivaDigits(11)]

\* classification.py:140-143, 153-155: the keywords found in the text; of the
\* parts, only the label is or contains one
TermsOf(text) == {k \in AllTerms : k = text.label}

\* the pattern "<label>\s*n[°.:\s]*<number>" of each label
NumberPattern(label) ==
    CASE label = "fattura" -> <<"fattura", 1>>
      [] label = "ddt" -> <<"ddt", 1>>
      [] label = "bolla" -> <<"ddt", 2>>
      [] label = "ordine" -> <<"po", 1>>

\* classification.py:146-150: the patterns found in the text.  After the
\* label the pattern takes "n", any of "°.: " and then needs a digit (\d+,
\* and [A-Z0-9/-]+ on the lower-cased text): "nr." and a number that starts
\* with a letter do not match.
PatternsOf(text) ==
    IF text.marker # "nr." /\ IsDigit(text.number[1])
    THEN {NumberPattern(text.label)} ELSE {}

\* what the classifier finds in a text; a text may be given by that alone
FeaturesOf(text) ==
    IF "terms" \in DOMAIN text THEN text
    ELSE [terms |-> TermsOf(text), patterns |-> PatternsOf(text)]

\* classify_by_llm returns None when the request fails (lines 239-241)
LlmUnavailable == NoResult

\* the threshold set to the highest confidence of the rules
RuleThresholdOfRules == MaxRuleConfidence
RuleThreshold == 7000
HybridBoost == 2000
MaxHybridConfidence == 9800
FallbackConfidence == 5000

\* lines 263-303
classify_document(text, filename_match, llm_result) ==
    LET rules_result == classify_by_rules(FeaturesOf(text), filename_match) IN
    IF rules_result # NoResult /\ rules_result.confidence >= RuleThreshold
    THEN rules_result
    ELSE IF llm_result # NoResult
    THEN IF rules_result # NoResult /\ rules_result.doc_type = llm_result.doc_type
         THEN [doc_type |-> llm_result.doc_type,
               confidence |-> IF rules_result.confidence + HybridBoost < MaxHybridConfidence
                              THEN rules_result.confidence + HybridBoost
                              ELSE MaxHybridConfidence,
               method |-> "hybrid"]
         ELSE llm_result
    ELSE IF rules_result # NoResult THEN rules_result
    ELSE [doc_type |-> "altro", confidence |-> FallbackConfidence, method |-> "fallback"]

\* str.upper(), for the letters of Numbers
Upper(c) == IF c = "a" THEN "A" ELSE IF c = "b" THEN "B" ELSE c

\* metatag.py:131-149
validate_doc_number(value) ==
    IF value = <<>> THEN None
    ELSE IF ~\E i \in 1..Len(value) : IsDigit(value[i]) THEN None
    ELSE IF Len(value) < 2 \/ Len(value) > 25 THEN None
    ELSE [i \in 1..Len(value) |-> Upper(value[i])]

\* lines 309-317: the label, then 11 digits
PivaMatch(text) ==
    IF text.piva_label \in {"p.iva", "partita iva"} /\ Len(text.piva) >= 11
    THEN <<[field_name |-> "partita_iva", normalized_value |-> SubSeq(text.piva, 1, 11)]>>
    ELSE <<>>

\* \d{1,2}[/.-]\d{1,2}[/.-]\d{2,4}
DateShaped(str) ==
    /\ ThreeRuns(str)
    /\ Len(Runs(str).run[1]) \in 1..2
    /\ Len(Runs(str).run[2]) \in 1..2
    /\ Len(Runs(str).run[3]) \in 2..4
    /\ \A k \in 1..2 : Runs(str).sep[k] \in DateSeparators

\* lines 320-332: "data", optionally "documento", then the date
DateMatch(text) ==
    IF text.date_intro \in {"data", "data documento:"} /\ DateShaped(text.date)
    THEN <<[field_name |-> "data_documento", normalized_value |-> normalize_date(text.date)]>>
    ELSE <<>>

\* lines 335-338: after the label "n" and one of "°.: ", or "nr", "." and
\* blanks if any; the number of 2 to 20 characters follows at once
NumberFollows(text) ==
    \/ text.marker \in {"n.", "n:"} /\ text.gap = 0
    \/ text.marker = "n" /\ text.gap = 1
    \/ text.marker = "nr."

\* lines 335-348
NumberMatch(text) ==
    IF /\ NumberFollows(text)
       /\ Len(text.number) \in 2..20
       /\ validate_doc_number(text.number) # None
    THEN <<[field_name |-> "numero_documento",
            normalized_value |-> validate_doc_number(text.number)]>>
    ELSE <<>>

\* lines 300-350
extract_by_rules_fallback(text) == PivaMatch(text) \o DateMatch(text) \o NumberMatch(text)

\* extract_fields when extract_with_llm_semantic returns None (lines 553-574)
extract_fields(text) ==
    LET found == extract_by_rules_fallback(text)
        missing == {"numero_documento", "data_documento"}
                       \ {found[i].field_name : i \in 1..Len(found)}
    IN [fields |-> found,
        lines |-> <<>>,
        warnings |-> <<"llm_extraction_failed">>
                     \o (IF missing # {} THEN <<"missing_fields">> ELSE <<>>)
                     \o <<"no_lines">>]

InvoiceCalls ==
    {[fn |-> "process_document", text |-> t, filename_match |-> h] :
        t \in InvoiceTexts, h \in FilenameMatches}

\* tasks.py:85-101: stages 3 and 4 of a run on the text of the document
ClassifyAndExtract ==
    /\ arg.fn = "process_document"
    /\ Returns("process_document",
               [classification |-> classify_document(arg.text, arg.filename_match, LlmUnavailable),
                field_result |-> extract_fields(arg.text)])

SpecInvoice == InitCall(InvoiceCalls) /\ [][ClassifyAndExtract]_vars

FieldSet(field_result) == {field_result.fields[i] : i \in 1..Len(field_result.fields)}

\* C14: for the text "FATTURA N. 2024/00123 del 15/03/2024, P.IVA 12345678901,
\* TOTALE € 1.234,56" and no LLM, the run classifies the document as invoice
\* (fattura) with confidence >= 0.7 by the rules alone and the rules fallback
\* yields numero_documento 2024/00123, data_documento 2024-03-15 and
\* partita_iva 12345678901.
C14_InvoiceSample ==
    (res # NoCall /\ res.fn = "process_document" /\ arg.text = InvoiceSample) =>
        /\ res.value.classification.doc_type = "fattura"
        /\ res.value.classification.method = "rules"
        /\ res.value.classification.confidence >= 7000
        /\ FieldSet(res.value.field_result) =
              {[field_name |-> "numero_documento", normalized_value |-> InvoiceSample.number],
               [field_name |-> "data_documento",
                normalized_value |-> <<"2", "0", "2", "4", "-", "0", "3", "-", "1", "5">>],
               [field_name |-> "partita_iva", normalized_value |-> PivaDigits(11)]}

(***************************************************************************)
(* The denormalized columns of the Document row (models/document.py:63-78) *)
(* under the promotion loop of process_document and the two reprocess      *)
(* handlers, one request or run at a time.  A value is named by the run    *)
(* and the position of the field it came from.                             *)
(***************************************************************************)
Columns ==
    {"doc_number", "doc_date", "fornitore", "emittente", "totale", "vettore",
     "causale_trasporto", "scadenza_pagamento", "modalita_pagamento", "imponibile",
     "aliquota_iva", "importo_iva", "validita_offerta", "data_consegna"}

\* tasks.py:119-171: the column a field name is promoted to
ColumnOf(field_name) ==
    CASE field_name = "numero_documento" -> "doc_number"
      [] field_name = "data_documento" -> "doc_date"
      [] field_name \in Columns \ {"doc_number", "doc_date"} -> field_name
      [] OTHER -> "none"

\* the conversion applied before the assignment
Conversion(column) ==
    CASE column \in {"doc_date", "scadenza_pagamento", "validita_offerta", "data_consegna"}
            -> "fromisoformat"
      [] column \in {"totale", "imponibile", "aliquota_iva", "importo_iva"} -> "float"
      [] OTHER -> "none"

NoValue == <<0, 0>>

\* the field names runs are given here; partita_iva is promoted to no column
StudiedFieldNames == {"numero_documento", "data_documento", "totale", "vettore", "partita_iva"}

\* parses: whether float() / datetime.fromisoformat() accepts normalized_value
FieldResults == [field_name : StudiedFieldNames, parses : BOOLEAN]

FieldLists == UNION {[1..n -> FieldResults] : n \in 0..MaxFields}

\* the assignment is made: no conversion, or one that does not raise
Assigned(field) ==
    /\ ColumnOf(field.field_name) # "none"
    /\ Conversion(ColumnOf(field.field_name)) # "none" => field.parses

\* the positions of field_list whose field is assigned to the column
AssignedTo(column, field_list) ==
    {i \in 1..Len(field_list) :
        ColumnOf(field_list[i].field_name) = column /\ Assigned(field_list[i])}

Last(S) == CHOOSE i \in S : \A j \in S : j <= i

\* tasks.py:107-171: the columns after the loop over field_result.fields
Promoted(col, field_list, run) ==
    [c \in Columns |->
        IF AssignedTo(c, field_list) = {} THEN col[c]
        ELSE <<run, Last(AssignedTo(c, field_list))>>]

\* routers/documents.py:446-455 resets none of these columns
ResetByDocuments(col) == col

\* routers/ingestion.py:273-275
ResetByIngestion(col) == [col EXCEPT !["doc_number"] = NoValue, !["doc_date"] = NoValue]

\* the row as upload_files creates it
InitColumns ==
    /\ file = [np |-> 0, is_scanned |-> TRUE]
    /\ InitStore
    /\ arg = NoCall
    /\ res = NoCall
    /\ ocr = NoOcr
    /\ columns = [phase |-> "queued", run |-> 0, reprocessed |-> FALSE,
                  field_list |-> <<>>, col |-> [c \in Columns |-> NoValue]]

\* a run of process_document that reaches the commit of line 192
ColumnsRun(field_list) ==
    /\ columns.phase = "queued"
    /\ columns.run < MaxRuns
    /\ columns' = [columns EXCEPT
            !.phase = "extracted",
            !.run = @ + 1,
            !.field_list = field_list,
            !.col = Promoted(@, field_list, columns.run + 1)]
    /\ UNCHANGED <<pipelineVars, ingestVars, callVars, ocr>>

ColumnsReprocessDocuments ==
    /\ columns.phase = "extracted"
    /\ columns' = [columns EXCEPT !.phase = "queued", !.reprocessed = TRUE,
                                  !.col = ResetByDocuments(@)]
    /\ UNCHANGED <<pipelineVars, ingestVars, callVars, ocr>>

ColumnsReprocessIngestion ==
    /\ columns.phase = "extracted"
    /\ columns' = [columns EXCEPT !.phase = "queued", !.reprocessed = TRUE,
                                  !.col = ResetByIngestion(@)]
    /\ UNCHANGED <<pipelineVars, ingestVars, callVars, ocr>>

NextColumns ==
    \/ \E field_list \in FieldLists : ColumnsRun(field_list)
    \/ ColumnsReprocessDocuments
    \/ ColumnsReprocessIngestion

SpecColumns == InitColumns /\ [][NextColumns]_vars

\* C22: after a reprocess followed by a successful run, every denormalized
\* column holds the value of the last field of its name that the run
\* produced and that could be converted, and is empty when the run produced
\* none; no value of an earlier run is left.
C22_ColumnsOfLastRun ==
    (columns # NoColumns /\ columns.phase = "extracted" /\ columns.reprocessed) =>
        \A c \in Columns :
            columns.col[c] =
                (IF AssignedTo(c, columns.field_list) = {} THEN NoValue
                 ELSE <<columns.run, Last(AssignedTo(c, columns.field_list))>>)

(***************************************************************************)
(* ocr_page (services/ocr.py).  Confidences are in units of 1/10000, as    *)
(* for the classifier.  The page is given by what its reads return: the     *)
(* length of the native text, the Tesseract average (0-100) and word       *)
(* count, and what each DeepSeek request would answer.                     *)
(***************************************************************************)
ConfidenceOne == 10000
NativeConfidence == 10000
DeepseekConfidence == 9000
RotatedConfidence == 8500
MinNativeChars == 50
MinDeepseekChars == 50
EscalationConfidence == 75
EscalationWords == 10

\* ocr_with_deepseek: None for an error or a non-200 response (lines 109-115),
\* else the length of the text returned
DeepseekAnswers == {-1, 0, 50, 51}

PageReads ==
    [opens : BOOLEAN,                \* fitz.open / load_page do not raise
     native_chars : {0, 50, 51},     \* len(text.strip())
     fast_pass : {"returns", "raises"},
     avg_conf : {0, 49, 50, 74, 75, 100},
     meaningful_words : {0, 9, 10},
     deepseek : DeepseekAnswers,
     deepseek_rotated : DeepseekAnswers]

\* lines 180, 194: deepseek_text and len(deepseek_text) > 50
Accepted(answer) == answer > MinDeepseekChars

\* escalation only when both signs of poor quality are there
UseDeepseekOnBoth(avg_conf, meaningful_words) ==
    avg_conf < EscalationConfidence /\ meaningful_words < EscalationWords

\* line 171
UseDeepseek(avg_conf, meaningful_words) ==
    avg_conf < EscalationConfidence \/ meaningful_words < EscalationWords

PageResult(text, confidence, calls) ==
    [text |-> text, confidence |-> confidence, calls |-> calls]

\* lines 118-232; calls: the DeepSeek requests made, in order
ocr_page(page) ==
    IF ~page.opens THEN PageResult("", 0, <<>>)
    ELSE IF page.native_chars > MinNativeChars THEN PageResult("native", NativeConfidence, <<>>)
    ELSE IF page.fast_pass = "raises" THEN PageResult("", 0, <<>>)
    ELSE LET tesseract(calls) ==
                 PageResult("tesseract", page.avg_conf * ConfidenceOne, calls)
         IN IF ~UseDeepseek(page.avg_conf, page.meaningful_words) THEN tesseract(<<>>)
            ELSE IF Accepted(page.deepseek)
            THEN PageResult("deepseek", DeepseekConfidence, <<"unrotated">>)
            ELSE IF Accepted(page.deepseek_rotated)
            THEN PageResult("deepseek_rotated", RotatedConfidence, <<"unrotated", "rotated">>)
            ELSE tesseract(<<"unrotated", "rotated">>)

OcrPageCalls == {[fn |-> "ocr_page", page |-> p] : p \in PageReads}

CallOcrPage ==
    /\ arg.fn = "ocr_page"
    /\ Returns("ocr_page", ocr_page(arg.page))

SpecOcrPage == InitCall(OcrPageCalls) /\ [][CallOcrPage]_vars

\* the page has no native text layer and the fast pass returned
FastPassPage(page) ==
    page.opens /\ page.native_chars <= MinNativeChars /\ page.fast_pass = "returns"

C26_ConfidenceInUnitInterval ==
    (res # NoCall /\ res.fn = "ocr_page") =>
        /\ res.value.confidence \in 0..ConfidenceOne
        /\ res.value.text = "native" => res.value.confidence = 10000
        /\ res.value.text = "deepseek" => res.value.confidence = 9000
        /\ res.value.text = "deepseek_rotated" => res.value.confidence = 8500
        /\ res.value.text = "tesseract" =>
              res.value.confidence = (arg.page.avg_conf * ConfidenceOne) \div 100

(***************************************************************************)
(* run_ocr (services/ocr.py:235-283): the calling thread and the threads   *)
(* of its ThreadPoolExecutor.  A submitted call waits in the executor's    *)
(* queue until a worker thread is free; future.result(timeout=700) gives   *)
(* up waiting without stopping the call; leaving the with block waits for  *)
(* every submitted call.  ocr_page returns a result for every exception    *)
(* (lines 230-232), so a future never holds an exception.                  *)
(***************************************************************************)
max_workers == 1
LowQualityConfidence == 5000

\* pages_to_ocr: None, or a list of page numbers (which need not exist)
OcrRequests ==
    {[given |-> FALSE, pages |-> <<>>]} \cup
    {[given |-> TRUE, pages |-> q] :
        q \in UNION {[1..n -> 1..(MaxOcrPages + 1)] : n \in 0..MaxOcrRequest}}

\* what the reads of a page can be, one of each kind of result
OcrReads ==
    {p \in PageReads :
        /\ p.meaningful_words = 10 /\ p.deepseek_rotated = -1
        /\ p.native_chars \in {0, 51} /\ p.fast_pass = "returns"
        /\ p.avg_conf \in {49, 75} /\ p.deepseek \in {-1, 51}
        /\ (p.native_chars = 51 => p.avg_conf = 75 /\ p.deepseek = -1)
        /\ (~p.opens => p.native_chars = 0 /\ p.avg_conf = 75 /\ p.deepseek = -1)}

Pending == [text |-> "pending", confidence |-> 0]

OcrPageResult(page_number, text, confidence) ==
    [page_number |-> page_number, text |-> text, confidence |-> confidence]

InitOcr ==
    /\ file = [np |-> 0, is_scanned |-> TRUE]
    /\ InitStore
    /\ arg = NoCall
    /\ res = NoCall
    /\ columns = NoColumns
    /\ \E opens \in BOOLEAN, total_pages \in 0..MaxOcrPages, request \in OcrRequests :
         ocr = [pc |-> "open", opens |-> opens, total_pages |-> total_pages,
                request |-> request, pages |-> <<>>, i |-> 1, queue |-> <<>>,
                executing |-> {}, started |-> <<>>, future |-> <<>>,
                results |-> <<>>, warnings |-> <<>>, success |-> FALSE,
                avg_confidence |-> 0]

OcrUnchanged == UNCHANGED <<pipelineVars, ingestVars, callVars, columns>>

\* lines 240-250
OpenPdf ==
    /\ ocr.pc = "open"
    /\ IF ~ocr.opens
       THEN ocr' = [ocr EXCEPT !.pc = "returned",
                               !.warnings = <<<<"could_not_open", 0>>>>]
       ELSE LET asked == IF ocr.request.given THEN ocr.request.pages
                         ELSE [k \in 1..ocr.total_pages |-> k]
            IN ocr' = [ocr EXCEPT !.pc = IF asked = <<>> THEN "shutdown" ELSE "submit",
                                  !.pages = asked,
                                  !.future = [k \in 1..Len(asked) |-> Pending]]
    /\ OcrUnchanged

\* lines 257-263: executor.submit
Submit ==
    /\ ocr.pc = "submit"
    /\ ocr' = [ocr EXCEPT !.pc = "wait", !.queue = Append(@, ocr.i)]
    /\ OcrUnchanged

\* every worker thread busy or not, a call is taken up
WorkerFreeAlways == TRUE

\* a thread of the pool is free
WorkerFree == Cardinality(ocr.executing) < max_workers

\* a worker thread takes the oldest submitted call
WorkerStart ==
    /\ ocr.pc \in {"submit", "wait", "shutdown"}
    /\ ocr.queue # <<>>
    /\ WorkerFree
    /\ ocr' = [ocr EXCEPT !.queue = Tail(@),
                          !.executing = @ \cup {Head(ocr.queue)},
                          !.started = Append(@, Head(ocr.queue))]
    /\ OcrUnchanged

\* the k-th page asked for is a page of the PDF; load_page raises otherwise
PageExists(k) == ocr.pages[k] \in 1..ocr.total_pages

\* ocr_page returns in a worker thread
WorkerFinish(k, page) ==
    /\ k \in ocr.executing
    /\ page.opens = PageExists(k)
    /\ ocr' = [ocr EXCEPT !.executing = @ \ {k},
                          !.future[k] = [text |-> ocr_page(page).text,
                                         confidence |-> ocr_page(page).confidence]]
    /\ OcrUnchanged

NextPage(o) ==
    [o EXCEPT !.i = @ + 1,
              !.pc = IF o.i = Len(o.pages) THEN "shutdown" ELSE "submit"]

\* lines 267-272: the result arrived within the timeout
GetResult ==
    /\ ocr.pc = "wait"
    /\ ocr.future[ocr.i] # Pending
    /\ LET result == ocr.future[ocr.i]
           page_num == ocr.pages[ocr.i]
       IN ocr' = NextPage([ocr EXCEPT
                !.results = Append(@, OcrPageResult(page_num, result.text, result.confidence)),
                !.warnings = IF result.confidence < LowQualityConfidence
                             THEN Append(@, <<"low_quality", page_num>>) ELSE @])
    /\ OcrUnchanged

\* a timeout that ends the loop over the pages
ResultTimeoutAborts ==
    /\ ocr.pc = "wait"
    /\ ocr.future[ocr.i] = Pending
    /\ ocr' = [ocr EXCEPT !.pc = "shutdown",
                          !.warnings = Append(@, <<"timeout", ocr.pages[ocr.i]>>)]
    /\ OcrUnchanged

\* lines 274-276: FuturesTimeoutError
ResultTimeout ==
    /\ ocr.pc = "wait"
    /\ ocr.future[ocr.i] = Pending
    /\ LET page_num == ocr.pages[ocr.i]
       IN ocr' = NextPage([ocr EXCEPT
                !.results = Append(@, OcrPageResult(page_num, "", 0)),
                !.warnings = Append(@, <<"timeout", page_num>>)])
    /\ OcrUnchanged

RECURSIVE SumConfidence(_)
SumConfidence(results) ==
    IF results = <<>> THEN 0 ELSE Head(results).confidence + SumConfidence(Tail(results))

\* lines 278-283: the with block is left when no call is queued or running
ReturnResult ==
    /\ ocr.pc = "shutdown"
    /\ ocr.queue = <<>>
    /\ ocr.executing = {}
    /\ LET valid(r) == r.confidence > 0
           valid_pages == SelectSeq(ocr.results, valid)
       IN ocr' = [ocr EXCEPT
                !.pc = "returned",
                !.avg_confidence = IF valid_pages = <<>> THEN 0
                                   ELSE SumConfidence(valid_pages) \div Len(valid_pages),
                !.success = valid_pages # <<>>]
    /\ OcrUnchanged

NextOcr ==
    \/ OpenPdf
    \/ Submit
    \/ WorkerStart
    \/ \E k \in DOMAIN ocr.future, page \in OcrReads : WorkerFinish(k, page)
    \/ GetResult
    \/ ResultTimeout
    \/ ReturnResult

SpecOcr == InitOcr /\ [][NextOcr]_vars

(***************************************************************************)
(* Properties                                                              *)
(***************************************************************************)
\* a step of process_document for task d: its run starts, moves or ends
WorkerStep(d) == d \in DOMAIN runs /\ runs'[d] # runs[d]

\* a step of one of the two reprocess handlers
ReprocessStep == Len(runs') > Len(runs)

DefinedTransitions ==
    {<<"queued", "processing">>, <<"failed", "processing">>,
     <<"needs_rotation", "processing">>, <<"processing", "extracted">>,
     <<"processing", "failed">>, <<"extracted", "validated">>}

\* C1: every change of the document's status is one of the defined
\* transitions, or a rewind to queued made by a reprocess request.
C1_DefinedTransitionsOnly ==
    [][doc'.status # doc.status =>
          \/ <<doc.status, doc'.status>> \in DefinedTransitions
          \/ ReprocessStep /\ doc'.status = "queued"]_vars

\* the exception handler of task d has run: a stage of a run raised
Raised(d) ==
    /\ WorkerStep(d)
    /\ runs[d].pc \in {"ocr", "classify", "fields"}
    /\ runs'[d] = NoRun
    /\ nLost' = nLost

C3_FailedUntilReprocess ==
    [][exhausted' =>
          /\ doc'.status = "failed"
          /\ exhausted => \A d \in DOMAIN runs : Running(d)' => Running(d)]_vars

\* the document was stopped and nothing has rewritten its error message
Stopped == doc.status = "failed" /\ doc.error_message = "stopped"

\* C4: after stop-processing, no step of a run that was in flight and no
\* automatic retry changes the status of the stopped document.
C4_StopWins ==
    [][\A d \in DOMAIN runs :
          (Stopped /\ WorkerStep(d) /\ (Running(d) \/ runs'[d].retries > 0))
              => doc'.status = "failed"]_vars

\* C5: no step of process_document changes the status, the pages, the fields
\* or the lines of a validated document (here: one validated after a run
\* had extracted it).
C5_ValidatedUntouched ==
    [][\A d \in DOMAIN runs :
          (doc.status = "validated" /\ lastOk # NoPass /\ WorkerStep(d))
              => /\ doc'.status = "validated"
                 /\ UNCHANGED <<pages, fields, lines>>]_vars

FieldNamesOf(tbl) == [i \in 1..Len(tbl) |-> tbl[i].field_name]
LineNumbersOf(tbl) == [i \in 1..Len(tbl) |-> tbl[i].line_number]

\* C6: after each successful run of a reprocessed document the fields and
\* lines are the extractor's output, each row once, whichever reprocess
\* handler was used and however often.
C6_ReprocessIdempotent ==
    lastOk # NoPass =>
        /\ FieldNamesOf(fields) = FieldNames
        /\ LineNumbersOf(lines) = LineNumbers

C6_Witness ==
    /\ nRequests = 2
    /\ lastOk # NoPass
    /\ lastOk[1] = 3
    /\ FieldNamesOf(fields) = FieldNames
    /\ doc.status = "extracted"

\* C7: the fields and lines are exactly the rows of the last run that
\* completed since the last reprocess, and there are none if there was none.
C7_RowsOfLastPass ==
    /\ fields = (IF lastOk = NoPass THEN <<>> ELSE FieldRows(lastOk))
    /\ lines = (IF lastOk = NoPass THEN <<>> ELSE LineRows(lastOk))

\* C8: the document has at most one Page row per page number.
C8_OnePagePerNumber == \A n \in 1..MaxPages : PageCount(pages, n) <= 1

\* C9: no two Documents of a tenant have the same file_hash.
C9_HashUniquePerTenant ==
    \A i, j \in 1..Len(documents) :
        (i # j /\ documents[i].tenant_id = documents[j].tenant_id)
            => documents[i].file_hash # documents[j].file_hash

Executing == {d \in DispatchIds : Running(d) /\ runs[d].pc # "ack"}

\* C10: at most one run of process_document executes for the document.
C10_OneRunAtATime == Cardinality(Executing) <= 1

IsPrefix(s, t) == Len(s) <= Len(t) /\ SubSeq(t, 1, Len(s)) = s

\* C11: every write of Document.warnings that is not made by a reprocess
\* request keeps the previous list as a prefix.
C11_WarningsOnlyGrow ==
    [][ReprocessStep \/ IsPrefix(doc.warnings, doc'.warnings)]_vars

\* C12: in every state a confirm-rotation request for the document is
\* accepted (200) when the status is needs_rotation and rejected as a bad
\* request (400) when it is anything else.
C12_ConfirmRotation ==
    ConfirmRotationCode(doc.status) = (IF doc.status = "needs_rotation" THEN 200 ELSE 400)

\* the stage a run is at after the stage it is at
NextStage(pc) ==
    CASE pc = "extract" -> "ocr"
      [] pc = "ocr" -> "classify"
      [] pc = "classify" -> "fields"
      [] pc = "fields" -> "persist"
      [] pc = "persist" -> "ack"
      [] OTHER -> "none"

Contains(seq, x) == \E i \in 1..Len(seq) : seq[i] = x

\* C13: for a file that cannot be opened, a run goes through OCR,
\* classification and field extraction with no page stored, its last commit
\* leaves the status extracted and the extraction warning in the warnings,
\* and a step of the run leaves the status failed only when a stage raised.
C13_UnreadableFileProceeds ==
    [][\A d \in DOMAIN runs :
          (Unreadable(file) /\ WorkerStep(d) /\ Running(d)) =>
              /\ pages' = NoPages
              /\ runs'[d] # NoRun => runs'[d].pc = NextStage(runs[d].pc)
              /\ runs[d].pc = "persist" /\ runs'[d] # NoRun =>
                    /\ doc'.status = "extracted"
                    /\ Contains(doc'.warnings, "extraction_error")
              /\ doc'.status = "failed" => Raised(d)]_vars

C13_Witness ==
    /\ Unreadable(file)
    /\ doc.status = "extracted"
    /\ doc.warnings = <<"extraction_error", "could_not_open">>
    /\ lastOk # NoPass

\* the step commits rows of run d to one of the three tables
PersistsOutput(d) ==
    /\ WorkerStep(d)
    /\ Running(d)
    /\ pages' # pages \/ fields' # fields \/ lines' # lines

\* C18: once a run has put the document into processing, the Page,
\* ExtractedField and DocumentLine rows of earlier runs are gone before the
\* run persists any output: whenever a run commits rows, the tables hold no
\* row of another run besides them (one page row per page number at most,
\* fields and lines of this run only).
C18_ClearedBeforeOutput ==
    [][\A d \in DOMAIN runs : PersistsOutput(d) =>
          /\ \A n \in 1..MaxPages : PageCount(pages', n) <= 1
          /\ Passes(fields') \cup Passes(lines') \subseteq {runs[d].pass}]_vars

\* the commit of line 83 of run d, after run_ocr
OcrCommitted(d) ==
    /\ WorkerStep(d)
    /\ Running(d)
    /\ runs[d].pc = "ocr"
    /\ runs'[d] # NoRun

\* C19: when the extractor reports the document as scanned, the commit that
\* follows OCR leaves every Page row of the document with the OCR text and
\* the OCR confidence of its page number.
C19_OcrTextOnEveryPage ==
    [][\A d \in DOMAIN runs : (file.is_scanned /\ OcrCommitted(d)) =>
          \A r \in PageRows : pages'[r] > 0 => r = OcrPage(r.page_number)]_vars

Settled == doc.status \in {"extracted", "failed"}

\* C20: a document that a run of process_document has put into processing
\* is eventually extracted or failed, also when the time limit of the worker
\* ends the run.
C20_NoRunStaysInProcessing == (doc.status = "processing") ~> Settled

\* C21: a document whose status is extracted has no error message: the
\* message of a failed attempt does not survive a later successful attempt,
\* nor a reprocess followed by a successful run.
C21_ExtractedHasNoErrorMessage ==
    doc.status = "extracted" => doc.error_message = "null"

\* C23: within one run_ocr invocation at most one ocr_page call is executing
\* at any time, also after an earlier page's attempt has timed out, and the
\* attempts start in the order of the requested pages.
C23_OnePageAtATime ==
    (ocr # NoOcr) =>
        /\ Cardinality(ocr.executing) <= 1
        /\ ocr.started = [k \in 1..Len(ocr.started) |-> k]

C23_Witness ==
    /\ ocr # NoOcr
    /\ ocr.executing = {2}
    /\ Len(ocr.results) >= 1
    /\ Len(ocr.warnings) >= 1
    /\ ocr.warnings[1] = <<"timeout", ocr.pages[1]>>

\* the pages asked of run_ocr: pages_to_ocr, or every page of the PDF
Requested ==
    IF ocr.request.given THEN ocr.request.pages
    ELSE IF ocr.opens THEN [k \in 1..ocr.total_pages |-> k]
    ELSE <<>>

Warned(kind, page_num) ==
    \E j \in 1..Len(ocr.warnings) : ocr.warnings[j] = <<kind, page_num>>

\* run_ocr has returned one result per page asked for, in order, with empty
\* text, confidence 0 and a warning for a page that timed out or raised
OneResultPerPage ==
    /\ Len(ocr.results) = Len(Requested)
    /\ \A k \in 1..Len(ocr.results) :
         /\ ocr.results[k].page_number = Requested[k]
         /\ ~PageExists(k) =>
               /\ ocr.results[k] = OcrPageResult(Requested[k], "", 0)
               /\ \E kind \in {"timeout", "low_quality"} : Warned(kind, Requested[k])
    /\ \A j \in 1..Len(ocr.warnings) :
         ocr.warnings[j][1] = "timeout" =>
            \E k \in 1..Len(ocr.results) :
                ocr.results[k] = OcrPageResult(ocr.warnings[j][2], "", 0)

\* C24 as stated: run_ocr returns exactly one page result per requested page,
\* in request order; a page whose attempt times out or raises gets empty
\* text, confidence 0 and a warning naming the page, and the remaining pages
\* are still processed.
C24_OneResultPerRequestedPage ==
    (ocr # NoOcr /\ ocr.pc = "returned") => OneResultPerPage

\* C24 amended: the same for a PDF that run_ocr can open; for a PDF it
\* cannot open it returns no page result and the one warning that the PDF
\* could not be opened, whatever pages were asked for.
C24_OneResultPerPageOfOpenedPdf ==
    (ocr # NoOcr /\ ocr.pc = "returned") =>
        IF ocr.opens THEN OneResultPerPage
        ELSE ocr.results = <<>> /\ ocr.warnings = <<<<"could_not_open", 0>>>>

C24_Witness ==
    /\ ocr # NoOcr /\ ocr.pc = "returned" /\ ocr.opens
    /\ Len(ocr.results) = 2
    /\ Warned("timeout", ocr.pages[1])
    /\ ~PageExists(2)
    /\ Warned("low_quality", ocr.pages[2])

(***************************************************************************)
(* The evidence of classify_by_rules, classify_by_llm and the hybrid       *)
(* policy of classify_document (services/classification.py).  An evidence  *)
(* entry is <<kind, what, index>>.                                         *)
(***************************************************************************)
MaxEvidence == 5
OkStatus == 200
LlmConfidence == 8000

\* lines 130-150: the evidence of type t, in the order it is appended
EvidenceOf(t, text, filename_match) ==
    LET keywords == SelectSeq(KeywordList(t), LAMBDA k : k \in text.terms)
        patterns == SelectSeq([i \in 1..PatternCount(t) |-> <<t, i>>],
                              LAMBDA p : p \in text.patterns)
    IN (IF filename_match = t THEN <<<<"filename hint", t, 0>>>> ELSE <<>>)
       \o [i \in 1..Len(keywords) |-> <<"keyword", keywords[i], 0>>]
       \o [i \in 1..Len(patterns) |-> <<"pattern", patterns[i][1], patterns[i][2]>>]

\* line 182: best_evidence[:5]
FirstEvidence(evidence) ==
    SubSeq(evidence, 1, IF Len(evidence) < MaxEvidence THEN Len(evidence) ELSE MaxEvidence)

\* lines 163-183: the evidence of the result of classify_by_rules
rules_evidence(text, filename_match) ==
    LET scores == {t \in TypeSet : Score(t, text, filename_match) > 0} IN
    IF scores = {} THEN <<>>
    ELSE LET best_type == FirstBest(scores, text, filename_match)
             best_score == Score(best_type, text, filename_match)
             others == scores \ {best_type}
             second_type == FirstBest(others, text, filename_match)
             best_evidence ==
                 IF /\ others # {}
                    /\ Score(second_type, text, filename_match) * 10 >= best_score * 8
                 THEN Append(EvidenceOf(best_type, text, filename_match),
                             <<"ambiguous with", second_type, 0>>)
                 ELSE EvidenceOf(best_type, text, filename_match)
         IN FirstEvidence(best_evidence)

\* strings and patterns of two types, none of which brings another with it
FoundPool ==
    {<<"string", "invoice", 0>>, <<"string", "parcella", 0>>,
     <<"string", "ricevuta fiscale", 0>>, <<"string", "nota di credito", 0>>,
     <<"pattern", "fattura", 4>>, <<"pattern", "fattura", 5>>,
     <<"string", "delivery note", 0>>, <<"string", "packing list", 0>>,
     <<"pattern", "ddt", 6>>, <<"pattern", "ddt", 7>>, <<"pattern", "ddt", 8>>}

TextOf(m) ==
    [terms |-> {x[2] : x \in {y \in m : y[1] = "string"}},
     patterns |-> {<<x[2], x[3]>> : x \in {y \in m : y[1] = "pattern"}}]

EvidenceCalls ==
    {[fn |-> "classify_by_rules.evidence", text |-> TextOf(m), filename_match |-> h] :
        m \in SUBSET FoundPool, h \in FilenameMatches}

CallRulesEvidence ==
    /\ arg.fn = "classify_by_rules.evidence"
    /\ Returns("classify_by_rules.evidence",
               [result |-> classify_by_rules(arg.text, arg.filename_match),
                evidence |-> rules_evidence(arg.text, arg.filename_match)])

SpecEvidence == InitCall(EvidenceCalls) /\ [][CallRulesEvidence]_vars

\* the words an answer of the LLM is made of, upper-cased (line 237)
LlmWords ==
    {"PREVENTIVO", "DDT", "TRASPORTO", "BOLLA", "FATTURA", "INVOICE", "PO", "ORDINE",
     "ALTRO", "UNKNOWN"}

\* Python's `word in answer`
InAnswer(word, answer) ==
    \/ word \in answer
    \/ word = "PO" /\ "TRASPORTO" \in answer

\* what the request to the LLM comes to: an exception, or a response
LlmResponses ==
    {[raises |-> TRUE, status_code |-> 0, answer |-> {}]}
    \cup {[raises |-> FALSE, status_code |-> c, answer |-> {}] : c \in {404, 500}}
    \cup {[raises |-> FALSE, status_code |-> OkStatus, answer |-> a] :
            a \in SubsetsUpTo(LlmWords, MaxNamed)}

\* lines 220-260
classify_by_llm(response) ==
    IF response.raises THEN NoResult
    ELSE IF response.status_code # OkStatus THEN NoResult
    ELSE LET answer == response.answer
             doc_type ==
                 IF InAnswer("PREVENTIVO", answer) THEN "preventivo"
                 ELSE IF \/ InAnswer("DDT", answer)
                         \/ InAnswer("TRASPORTO", answer)
                         \/ InAnswer("BOLLA", answer) THEN "ddt"
                 ELSE IF InAnswer("FATTURA", answer) \/ InAnswer("INVOICE", answer)
                 THEN "fattura"
                 ELSE IF InAnswer("PO", answer) \/ InAnswer("ORDINE", answer) THEN "po"
                 ELSE "altro"
         IN [doc_type |-> doc_type, confidence |-> LlmConfidence, method |-> "llm"]

\* line 255: the evidence of a result of classify_by_llm
llm_evidence == <<<<"llm answer", "", 0>>>>

\* lines 273-279: classify_by_llm is awaited only below the threshold
calls_llm(text, filename_match) ==
    LET rules_result == classify_by_rules(FeaturesOf(text), filename_match)
    IN ~(rules_result # NoResult /\ rules_result.confidence >= RuleThreshold)

\* lines 263-303: the evidence of the result of classify_document
document_evidence(text, filename_match, llm_result) ==
    LET rules_result == classify_by_rules(FeaturesOf(text), filename_match)
        evidence == rules_evidence(FeaturesOf(text), filename_match)
    IN IF rules_result # NoResult /\ rules_result.confidence >= RuleThreshold
       THEN evidence
       ELSE IF llm_result # NoResult
       THEN IF rules_result # NoResult /\ rules_result.doc_type = llm_result.doc_type
            THEN evidence \o llm_evidence
            ELSE llm_evidence
       ELSE IF rules_result # NoResult THEN evidence
       ELSE <<<<"No classification match found", "", 0>>>>

HybridCalls ==
    {[fn |-> "classify_document", text |-> TextOf(m), filename_match |-> h,
      response |-> r] :
        m \in SubsetsUpTo(FoundPool, MaxFound), h \in FilenameMatches, r \in LlmResponses}

\* lines 263-303, with classify_by_llm answering from arg.response when called
CallClassifyDocument ==
    /\ arg.fn = "classify_document"
    /\ LET llm_called == calls_llm(arg.text, arg.filename_match)
           llm_result == IF llm_called THEN classify_by_llm(arg.response) ELSE NoResult
       IN Returns("classify_document",
                  [classification |->
                       classify_document(arg.text, arg.filename_match, llm_result),
                   evidence |->
                       document_evidence(arg.text, arg.filename_match, llm_result),
                   llm_called |-> llm_called,
                   llm_result |-> llm_result])

SpecHybrid == InitCall(HybridCalls) /\ [][CallClassifyDocument]_vars

\* the result of the rules on the text of the call
RulesOfCall == classify_by_rules(arg.text, arg.filename_match)

NoMatch ==
    [doc_type |-> "altro", confidence |-> 5000, method |-> "fallback"]

RunnersUp ==
    LET scores == {t \in TypeSet : Score(t, arg.text, arg.filename_match) > 0}
        others == scores \ {res.value.result.doc_type}
    IN {t \in others : \A u \in others : Score(u, arg.text, arg.filename_match)
                                            <= Score(t, arg.text, arg.filename_match)}

\* C28: in classify_by_rules, whenever the second-highest positive score is
\* at least 80% of the highest, the returned confidence is
\* 0.7 x min(top score / 10, 0.95), strictly lower than for the same top
\* score without a close runner-up, and the returned evidence contains a
\* note naming the runner-up type.
C28_AmbiguityNoted ==
    (res # NoCall /\ res.fn = "classify_by_rules.evidence" /\ res.value.result # NoResult) =>
        LET top_score == Score(res.value.result.doc_type, arg.text, arg.filename_match)
            plain == IF top_score * 100 < 9500 THEN top_score * 100 ELSE 9500
        IN \A t \in RunnersUp :
              (Score(t, arg.text, arg.filename_match) * 10 >= top_score * 8) =>
                  /\ res.value.result.confidence * 10 = 7 * plain
                  /\ res.value.result.confidence < plain
                  /\ \E j \in 1..Len(res.value.evidence), u \in RunnersUp :
                        res.value.evidence[j] = <<"ambiguous with", u, 0>>

\* the answer names none of the five categories
NamesNoCategory(answer) ==
    \A w \in {"PREVENTIVO", "DDT", "FATTURA", "PO", "ALTRO"} : ~InAnswer(w, answer)

\* C29: classify_by_llm yields no result for every transport error, every
\* non-success response and every response whose text names none of the
\* five categories, and the final classification is then the one of the
\* hybrid policy when the LLM has not answered: the rule result if any,
\* else "other" (altro) at 0.5.
C29_LlmFailsSoft ==
    (/\ res # NoCall /\ res.fn = "classify_document" /\ res.value.llm_called
     /\ \/ arg.response.raises
        \/ arg.response.status_code # 200
        \/ NamesNoCategory(arg.response.answer)) =>
        /\ res.value.llm_result = NoResult
        /\ res.value.classification = IF RulesOfCall # NoResult THEN RulesOfCall ELSE NoMatch

(***************************************************************************)
(* extract_with_llm_semantic and the two branches of extract_fields        *)
(* (services/metatag.py).  The object the LLM answers with is a function   *)
(* from its keys to strings; of the keys extract_fields reads, the model   *)
(* follows numero_documento, data_documento and totale, and the object     *)
(* carries no righe_articolo.                                              *)
(***************************************************************************)
\* the dict without keys: `return {}`
NoData == [k \in {} |-> <<>>]

\* the values the LLM gives for a key
LlmValues(key) ==
    CASE key = "numero_documento" -> {<<>>, <<"a", "b">>, <<"a", "1", "2">>}
      [] key = "data_documento" -> {<<>>, <<"1", "5", "/", "0", "3", "/", "2", "0", "2", "4">>}
      [] key = "totale" -> {<<>>, <<"€">>, <<"1", ",", "5">>}

LlmObjects ==
    UNION {{d \in [keys -> UNION {LlmValues(k) : k \in keys}] :
                \A k \in keys : d[k] \in LlmValues(k)} :
            keys \in SUBSET {"numero_documento", "data_documento", "totale"}}

\* what the request to the LLM comes to: an exception, or a response whose
\* text has no {...} block, one that is not JSON, or an object
LlmReplies ==
    {[raises |-> TRUE, status_code |-> 0, json |-> "none", data |-> NoData]}
    \cup {[raises |-> FALSE, status_code |-> 500, json |-> "none", data |-> NoData]}
    \cup {[raises |-> FALSE, status_code |-> OkStatus, json |-> j, data |-> NoData] :
            j \in {"none", "invalid"}}
    \cup {[raises |-> FALSE, status_code |-> OkStatus, json |-> "object", data |-> d] :
            d \in LlmObjects}

\* lines 257-297
extract_with_llm_semantic(reply) ==
    IF reply.raises THEN NoData
    ELSE IF reply.status_code # OkStatus THEN NoData
    ELSE IF reply.json = "object" THEN reply.data
    ELSE NoData

\* dict.get(key): the empty string stands for every false value
Get(llm_data, key) == IF key \in DOMAIN llm_data THEN llm_data[key] ELSE <<>>

\* lines 370-445: the fields of the LLM's object, in the order they are appended
llm_fields(llm_data) ==
    LET num == Get(llm_data, "numero_documento")
        date_val == Get(llm_data, "data_documento")
        totale == Get(llm_data, "totale")
    IN (IF num # <<>> /\ validate_doc_number(num) # None
        THEN <<[field_name |-> "numero_documento",
                normalized_value |-> validate_doc_number(num)]>>
        ELSE <<>>)
       \o (IF date_val # <<>>
           THEN <<[field_name |-> "data_documento",
                   normalized_value |-> IF normalize_date(date_val) # None
                                        THEN normalize_date(date_val) ELSE date_val]>>
           ELSE <<>>)
       \o (IF totale # <<>> /\ normalize_amount(totale) # None
           THEN <<[field_name |-> "totale", normalized_value |-> normalize_amount(totale)]>>
           ELSE <<>>)

\* lines 353-574, on what extract_with_llm_semantic returned
extract_fields_of(text, llm_data) ==
    IF DOMAIN llm_data # {}
    THEN LET num == Get(llm_data, "numero_documento")
             found == llm_fields(llm_data)
             missing == {"numero_documento", "data_documento"}
                            \ {found[i].field_name : i \in 1..Len(found)}
         IN [fields |-> found,
             lines |-> <<>>,
             warnings |-> (IF num # <<>> /\ validate_doc_number(num) = None
                           THEN <<"invalid_doc_number">> ELSE <<>>)
                          \o (IF missing # {} THEN <<"missing_fields">> ELSE <<>>)
                          \o <<"no_lines">>]
    ELSE extract_fields(text)

\* the sample text with each number and each tax-id label
ExtractTexts ==
    {[InvoiceSample EXCEPT !.number = n, !.piva_label = l] :
        n \in Numbers, l \in PivaLabels}

ExtractCalls ==
    {[fn |-> "extract_fields", text |-> t, reply |-> r] :
        t \in ExtractTexts, r \in LlmReplies}

CallExtractFields ==
    /\ arg.fn = "extract_fields"
    /\ Returns("extract_fields",
               extract_fields_of(arg.text, extract_with_llm_semantic(arg.reply)))

SpecExtract == InitCall(ExtractCalls) /\ [][CallExtractFields]_vars

\* the warning extract_fields gives when, and only when, it runs the fallback
FallbackRan ==
    \E i \in 1..Len(res.value.warnings) : res.value.warnings[i] = "llm_extraction_failed"

\* the LLM path of the call produced at least one field
LlmProducedField ==
    /\ ~arg.reply.raises
    /\ arg.reply.status_code = 200
    /\ arg.reply.json = "object"
    /\ llm_fields(arg.reply.data) # <<>>

\* C30: extract_fields runs the regex fallback extractor whenever the LLM
\* call fails, its output contains no parseable JSON object, or the parsed
\* object yields no field that passes validation, and does not run it when
\* the LLM path produced at least one field.
C30_FallbackWhenNothingUsable ==
    (res # NoCall /\ res.fn = "extract_fields") =>
        IF LlmProducedField
        THEN ~FallbackRan /\ res.value.fields = llm_fields(arg.reply.data)
        ELSE FallbackRan /\ res.value.fields = extract_by_rules_fallback(arg.text)

====
